---- MODULE Spec2Model ----
(***************************************************************************)
(* awsenv: the sync / purge orchestration engine (EnvSync, EnvPurge), the  *)
(* command handlers of the CLI entry point that construct them, and the    *)
(* profile merge (applyProfile) that feeds the handlers.                   *)
(*                                                                         *)
(* JavaScript strings are modelled as sequences of one-character strings,  *)
(* so that startsWith / endsWith / includes / toLowerCase / slice are      *)
(* computed the way the code computes them.  undefined / null / '' of a    *)
(* string-valued option are all the empty sequence (the code only tests    *)
(* such options for truthiness).  A flag that the code distinguishes       *)
(* between "absent" and "given" is one of "undefined", "true", "false".    *)
(***************************************************************************)
EXTENDS Integers, Sequences, FiniteSets, TLC

(***************************************************************************)
(* Bounds of the model.                                                    *)
(***************************************************************************)
\* largest number of parameters stored under the purged namespace
MaxParams == 4
\* largest number of parameters in the store when the whole CLI front end
\* (flags x environment x config file) is explored
MaxCliParams == 1
\* largest number of runs of sync on the same input and the same store
MaxRuns == 2
\* parameters that other clients create during a run
MaxCreated == 1

(***************************************************************************)
(* String helpers: methods of the JavaScript String prototype.             *)
(***************************************************************************)
UpperChars == <<"A","B","C","D","E","F","G","H","I","J","K","L","M",
                "N","O","P","Q","R","S","T","U","V","W","X","Y","Z">>
LowerChars == <<"a","b","c","d","e","f","g","h","i","j","k","l","m",
                "n","o","p","q","r","s","t","u","v","w","x","y","z">>

LowerChar(c) ==
  IF \E i \in 1..26 : UpperChars[i] = c
  THEN LowerChars[CHOOSE i \in 1..26 : UpperChars[i] = c]
  ELSE c

toLowerCase(s) == [i \in 1..Len(s) |-> LowerChar(s[i])]

startsWith(s, p) == Len(p) <= Len(s) /\ SubSeq(s, 1, Len(p)) = p

endsWith(s, p) == Len(p) <= Len(s) /\ SubSeq(s, Len(s) - Len(p) + 1, Len(s)) = p

includes(s, p) ==
  \E i \in 1..(Len(s) + 1) :
     i + Len(p) - 1 <= Len(s) /\ SubSeq(s, i, i + Len(p) - 1) = p

\* the second operand of a JS `a || b` on strings
OrElse(a, b) == IF a # <<>> THEN a ELSE b

(***************************************************************************)
(* Literals of the program and of the explored inputs.                     *)
(***************************************************************************)
Yes == <<"y","e","s">>
NsA == <<"/","a">>
NsB == <<"/","b">>
Slash == <<"/">>

\* answers an operator may type at a readline prompt
Answers == { Yes, <<"Y","E","S">>, <<"n","o">>, <<>>, NsA, NsB,
             <<"/","A">>, NsA \o Slash }

\* names of parameters that may exist in the remote store, in listing order
KeyPool == << <<"K","1">>, <<"K","2">>, <<"K","3">>, <<"K","4">>, <<"K","5">>,
              <<"K","6">> >>
ForeignName == NsB \o Slash \o <<"Z">>

(***************************************************************************)
(* Errors a remote call may be rejected with: name and message.            *)
(***************************************************************************)
MsgDeleteFailed == <<"D","e","l","e","t","e"," ","f","a","i","l","e","d">>
MsgRate         == <<"R","a","t","e"," ","e","x","c","e","e","d","e","d">>
MsgSecToken     == <<"I","n","v","a","l","i","d"," ","s","e","c","u","r","i","t","y",
                     " ","t","o","k","e","n">>
MsgExpired      == <<"T","o","k","e","n"," ","e","x","p","i","r","e","d">>
MsgNotAuth      == <<"U","s","e","r"," ","i","s"," ","n","o","t"," ",
                     "a","u","t","h","o","r","i","z","e","d">>
MsgNotFound     == <<"P","a","t","h"," ","n","o","t"," ","f","o","u","n","d">>
MsgDenied       == <<"d","e","n","i","e","d">>
MsgInvalidValue == <<"V","a","l","u","e"," ","i","s"," ","i","n","v","a","l","i","d">>

ErrPlain        == [name |-> "Error",                       message |-> MsgDeleteFailed]
ErrThrottle     == [name |-> "ThrottlingException",         message |-> MsgRate]
ErrClient       == [name |-> "UnrecognizedClientException", message |-> MsgSecToken]
ErrExpired      == [name |-> "ExpiredTokenException",       message |-> MsgExpired]
ErrDenied       == [name |-> "AccessDeniedException",       message |-> MsgDenied]
ErrNotAuth      == [name |-> "Error",                       message |-> MsgNotAuth]
ErrInvalidValue == [name |-> "ValidationException",         message |-> MsgInvalidValue]
ErrNotFound     == [name |-> "ParameterNotFound",           message |-> MsgNotFound]

RemoteErrors == { ErrPlain, ErrThrottle, ErrClient, ErrExpired, ErrDenied, ErrNotAuth }
ListErrors   == { ErrPlain, ErrClient, ErrNotFound }

NoError == [name |-> "", message |-> <<>>]

(***************************************************************************)
(* State.                                                                  *)
(***************************************************************************)
VARIABLES
  entry,            \* "cli": run through the command handler; "api": the class is used directly
  cmd,              \* "purge" or "sync"
  params,           \* what args.parse returned for the command line
  processEnv,       \* process.env: AWSENV_NAMESPACE
  awsenvFiles,      \* the .awsenv files at the three configPaths
  awsCliProfiles,   \* profile names found in ~/.aws/credentials and ~/.aws/config
  stdin,            \* process.stdin: a terminal, or a pipe with its content
  files,            \* the file system: path -> content of the existing files
  options,          \* the fields of the EnvPurge / EnvSync object
  pc,               \* where the program is
  exitCode,         \* argument of process.exit, meaningful when pc = "exited"
  store,            \* the remote parameter store: name -> [Value, Type]
  parameterNames,   \* EnvPurge.purge: the listing
  parameters,       \* EnvSync.sync: the prepared parameter records
  task,             \* per batch item: "queued", "delay", "inflight", "done"
  attempts,         \* per batch item: number of remote calls started for it
  outcome,          \* per batch item: how the remote store settled its call
  results,          \* per settled batch item: the value its pool promise resolved to
  listCalls,        \* number of getParametersByPath calls started
  answers,          \* what the operator typed at the prompts, in order
  fatalAt,          \* index of the item whose rejection terminated the process, or 0
  run,              \* number of the current run of the command on the same input
  storeAfterFirst,  \* the remote store as the first run left it (empty before that)
  allParameters,    \* getParametersByPath: the names of the pages received so far
  pagesFetched,     \* getParametersByPath: number of pages received
  created,          \* names that another client created in the store during the run
  call,             \* a direct call of a library function: its name and arguments
  ret               \* what that call returned, once it has

vars == << entry, cmd, params, processEnv, awsenvFiles, awsCliProfiles, stdin, files,
           options, pc, exitCode, store, parameterNames, parameters, task, attempts, outcome, results,
           listCalls, answers, fatalAt, run, storeAfterFirst, allParameters, pagesFetched,
           created, call, ret >>

inputVars == << entry, cmd, params, processEnv, awsenvFiles, awsCliProfiles, stdin, files >>
batchVars == << task, attempts, outcome, results, fatalAt >>
runVars == << run, storeAfterFirst >>
libVars == << call, ret >>
pageVars == << allParameters, pagesFetched, created >>

(***************************************************************************)
(* p-limit: a pool of `concurrency` slots over a FIFO queue.  limit(fn)    *)
(* queues fn; the first `concurrency` queued functions are started at      *)
(* once; every time a started function settles, the head of the queue is   *)
(* started.  A started function of EnvSync / EnvPurge first waits for its  *)
(* 50ms timer unless its index is 0, and then issues its remote call, so   *)
(* the timer is waited for inside the slot.                                *)
(***************************************************************************)
UploadConcurrency == 3
DeleteConcurrency == 3

\* the state a pool task is in right after it is started (index is 1-based here)
Started(index) == IF index > 1 THEN "delay" ELSE "inflight"

Queued(t) == { i \in DOMAIN t : t[i] = "queued" }
Active(t) == { i \in DOMAIN t : t[i] \in {"delay", "inflight"} }
InFlight(t) == { i \in DOMAIN t : t[i] = "inflight" }

Min(S) == CHOOSE x \in S : \A y \in S : x <= y

\* the mutant: every function is started at once, whatever the pool width
pLimitMapUnbounded(n, concurrency) == [i \in 1..n |-> Started(i)]

\* parameters.map(... limit(...)): all n functions enqueued in input order
pLimitMap(n, concurrency) ==
  [i \in 1..n |-> IF i <= concurrency THEN Started(i) ELSE "queued"]

\* the mutant: the settled task i keeps its slot, the queue is not served
pLimitNextSlotKept(t, i) == [t EXCEPT ![i] = "done"]

\* next(): the slot of the settled task i is handed to the head of the queue
pLimitNext(t, i) ==
  LET t1 == [t EXCEPT ![i] = "done"]
  IN  IF Queued(t1) # {}
      THEN [t1 EXCEPT ![Min(Queued(t1))] = Started(Min(Queued(t1)))]
      ELSE t1

\* remote calls issued by a step that takes the pool from t to t2
Issued(t, t2, att) ==
  [i \in DOMAIN t2 |->
     IF t2[i] = "inflight" /\ (i \notin DOMAIN t \/ t[i] # "inflight")
     THEN (IF i \in DOMAIN att THEN att[i] ELSE 0) + 1
     ELSE (IF i \in DOMAIN att THEN att[i] ELSE 0)]

AllDone(t) == \A i \in DOMAIN t : t[i] = "done"

\* return { success: true, parameter: name }
SuccessResult(name) == [success |-> TRUE, parameter |-> name]

\* the mutant: the error's name is reported in place of its message
FailureResultByName(name, error) ==
  [success |-> FALSE, parameter |-> name, error |-> << error.name >>]

\* return { success: false, parameter: name, error: error.message }
FailureResult(name, error) ==
  [success |-> FALSE, parameter |-> name, error |-> error.message]

\* the mutant: the values are collected in the order the promises settle
CompletionOrderSlot(res, index) == Cardinality(DOMAIN res) + 1

\* Promise.all(promises): the value the index-th promise resolved to is the
\* index-th entry of the array it resolves to, whenever that promise settled
PromiseAllSlot(res, index) == index

Pending == [settled |-> "no", error |-> NoError]
Fulfilled == [settled |-> "ok", error |-> NoError]
Rejected(err) == [settled |-> "err", error |-> err]

(***************************************************************************)
(* Process termination.                                                    *)
(***************************************************************************)
\* process.exit(code)
Exit(code) == pc' = "exited" /\ exitCode' = code

\* the method returns: the command handler then calls process.exit(0)
\* (index.js); a direct caller of the class just gets control back
Return ==
  IF entry = "cli" THEN Exit(0) ELSE pc' = "returned" /\ exitCode' = exitCode

Ended == pc \in {"exited", "returned"}

(***************************************************************************)
(* The remote store (AWS SSM), as far as the engine observes it.           *)
(***************************************************************************)
NamePool(ns) == [i \in 1..Len(KeyPool) |-> ns \o Slash \o KeyPool[i]]

UnderPath(name, path) ==
  /\ startsWith(name, path)
  /\ Len(name) > Len(path)
  /\ (endsWith(path, Slash) \/ name[Len(path) + 1] = "/")

AllNames == NamePool(NsA) \o << ForeignName >>

\* GetParametersByPath, Recursive, all pages concatenated
Listing(st, path) ==
  SelectSeq(AllNames, LAMBDA nm : nm \in DOMAIN st /\ UnderPath(nm, path))

\* the mutant: the delete removes all the names that differ from nm in
\* their last character only
RemoveByPrefix(st, nm) ==
  [x \in { y \in DOMAIN st : ~startsWith(y, SubSeq(nm, 1, Len(nm) - 1)) } |-> st[x]]

Remove(st, nm) == [x \in (DOMAIN st) \ {nm} |-> st[x]]

(***************************************************************************)
(* profiles: .awsenv lookup and applyProfile.                              *)
(***************************************************************************)
NoSettings == [namespace |-> <<>>, paranoid |-> "undefined", encrypt |-> "undefined"]
NoFile == [exists |-> FALSE, profiles |-> <<>>]

RECURSIVE FirstWith(_, _, _)
\* getAwsEnvConfig: the section of the first existing file that has it, or {}
FirstWith(configs, k, profileName) ==
  IF k > Len(configs) THEN NoSettings
  ELSE IF configs[k].exists /\ profileName \in DOMAIN configs[k].profiles
       THEN configs[k].profiles[profileName]
       ELSE FirstWith(configs, k + 1, profileName)

getAwsEnvConfig(profileName) == FirstWith(awsenvFiles, 1, profileName)

RECURSIVE stripTrailingSlashes(_)
\* namespace.replace(/\/+$/, '')
stripTrailingSlashes(s) ==
  IF s # <<>> /\ s[Len(s)] = "/" THEN stripTrailingSlashes(SubSeq(s, 1, Len(s) - 1)) ELSE s

\* 'true' / anything else of a config value, as the flag it becomes
ConfigFlag(v) == IF v = "true" THEN "true" ELSE "false"

\* applyProfile throws when the AWS CLI profile does not exist
applyProfileThrows(profileName) == profileName \notin awsCliProfiles

\* applyProfile: config settings first, every defined CLI parameter on top
applyProfile(p, profileName) ==
  LET awsenvConfig == getAwsEnvConfig(profileName)
      fromConfig ==
        [ namespace |-> stripTrailingSlashes(awsenvConfig.namespace),
          paranoid  |-> IF awsenvConfig.paranoid # "undefined"
                        THEN ConfigFlag(awsenvConfig.paranoid) ELSE "undefined",
          encrypt   |-> IF awsenvConfig.encrypt # "undefined"
                        THEN ConfigFlag(awsenvConfig.encrypt) ELSE "undefined" ]
  IN  [ p EXCEPT
          !.namespace = IF p.namespace # <<>> THEN p.namespace ELSE fromConfig.namespace,
          !.paranoid  = IF p.paranoid # "undefined" THEN p.paranoid ELSE fromConfig.paranoid,
          !.encrypt   = IF p.encrypt # "undefined" THEN p.encrypt ELSE fromConfig.encrypt ]

\* index.js shouldUseDefaultProfile (params.sync is never set by args: sync
\* is a command, not an option)
shouldUseDefaultProfile ==
  /\ params.profile = ""
  /\ params.namespace = <<>> /\ processEnv.AWSENV_NAMESPACE = <<>>
  /\ \E k \in 1..Len(awsenvFiles) : awsenvFiles[k].exists

\* const profileToUse = mergedParams.profile || (... ? 'default' : null)
profileToUse ==
  IF params.profile # "" THEN params.profile
  ELSE IF params.namespace = <<>> /\ shouldUseDefaultProfile THEN "default"
  ELSE ""

finalParams ==
  IF profileToUse # "" THEN applyProfile(params, profileToUse) ELSE params

(***************************************************************************)
(* EnvPurge                                                                *)
(***************************************************************************)
\* constructor
EnvPurge(o) ==
  [ namespace  |-> o.namespace,
    force      |-> o.force = "true",
    paranoid   |-> o.paranoid = "true",
    dryRun     |-> FALSE,
    encrypt    |-> FALSE,
    filePath   |-> "",
    envContent |-> <<>> ]

\* index.js, purge command handler, up to `await envPurge.purge()`
PurgeCommand ==
  /\ pc = "cli" /\ cmd = "purge"
  /\ IF profileToUse # "" /\ applyProfileThrows(profileToUse)
     THEN Exit(1) /\ UNCHANGED options
     ELSE IF finalParams.namespace = <<>> /\ processEnv.AWSENV_NAMESPACE = <<>>
     THEN Exit(1) /\ UNCHANGED options
     ELSE /\ options' = EnvPurge(
                 [ namespace |-> OrElse(finalParams.namespace, processEnv.AWSENV_NAMESPACE),
                   force     |-> finalParams.force,
                   paranoid  |-> finalParams.paranoid ])
          /\ pc' = "purge"
          /\ UNCHANGED exitCode
  /\ UNCHANGED << inputVars, runVars, libVars, pageVars, parameters, store, parameterNames, batchVars, listCalls, answers >>

\* the mutant: --force overrides the paranoid lock
ParanoidBlocksUnlessForced == options.paranoid /\ ~options.force

\* if (this.paranoid)
ParanoidBlocks == options.paranoid

\* purge(), from its entry to the await of listParameters
Purge ==
  /\ pc = "purge"
  /\ IF ParanoidBlocks
     THEN Exit(1) /\ UNCHANGED listCalls
     ELSE IF options.namespace = <<>>
     THEN Exit(1) /\ UNCHANGED listCalls
     ELSE /\ listCalls' = listCalls + 1
          /\ pc' = "listing"
          /\ UNCHANGED exitCode
  /\ UNCHANGED << inputVars, runVars, libVars, pageVars, parameters, options, store, parameterNames, batchVars, answers >>

\* deleteParameters, up to the first await: every name is handed to the pool
deleteParameters(names) ==
  /\ task' = pLimitMap(Len(names), DeleteConcurrency)
  /\ attempts' = Issued(<<>>, task', <<>>)
  /\ outcome' = [i \in 1..Len(names) |-> Pending]
  /\ results' = <<>>
  /\ pc' = "deleting"
  /\ UNCHANGED << exitCode, fatalAt >>

\* MaxResults: 10
MaxResults == 10

\* the sizes the next page of the listing may have: the store returns at
\* most MaxResults names per request, and may return fewer
PageSizes(st, path) ==
  LET rest == Len(Listing(st, path)) - Len(allParameters)
  IN  IF rest = 0 THEN {0} ELSE 1..Min({MaxResults, rest})

\* allParameters.concat(response.Parameters) for a page of n names
ConcatPage(st, path, n) ==
  allParameters \o SubSeq(Listing(st, path), Len(allParameters) + 1, Len(allParameters) + n)

\* the mutant: the NextToken of the response is ignored
HasNextTokenIgnored(listing, got) == FALSE

\* nextToken = response.NextToken: set while names remain to be returned
HasNextToken(listing, got) == Len(got) < Len(listing)

\* a page arrived with a NextToken: the do-while loop sends the next request
ListPage(n) ==
  /\ pc = "listing"
  /\ n \in PageSizes(store, options.namespace)
  /\ HasNextToken(Listing(store, options.namespace), ConcatPage(store, options.namespace, n))
  /\ allParameters' = ConcatPage(store, options.namespace, n)
  /\ pagesFetched' = pagesFetched + 1
  /\ UNCHANGED << created, inputVars, runVars, libVars, parameters, options, pc, exitCode, store,
                  parameterNames, batchVars, listCalls, answers >>

\* the last page arrived: listParameters resolved; purge() continues to its
\* next await
ListResolve(n) ==
  /\ pc = "listing"
  /\ n \in PageSizes(store, options.namespace)
  /\ ~HasNextToken(Listing(store, options.namespace), ConcatPage(store, options.namespace, n))
  /\ LET names == ConcatPage(store, options.namespace, n)
     IN  /\ allParameters' = names
         /\ pagesFetched' = pagesFetched + 1
         /\ parameterNames' = names
         /\ UNCHANGED created
         /\ IF names = <<>>
            THEN Return /\ UNCHANGED batchVars
            ELSE IF options.force
            THEN deleteParameters(names)
            ELSE pc' = "ask1" /\ UNCHANGED << exitCode, batchVars >>
  /\ UNCHANGED << inputVars, runVars, libVars, parameters, options, store, listCalls, answers >>

ExternalValue == [Value |-> <<"n","e","w">>, Type |-> "String"]

\* another client of the store creates a parameter while the purge waits
\* for the operator or deletes: nothing in EnvPurge locks the namespace
ExternalPut(name) ==
  /\ cmd = "purge" /\ pc \in {"ask1", "ask2", "deleting"}
  /\ Cardinality(created) < MaxCreated
  /\ name \notin DOMAIN store
  /\ store' = [x \in DOMAIN store \cup {name} |->
                 IF x = name THEN ExternalValue ELSE store[x]]
  /\ created' = created \cup {name}
  /\ UNCHANGED << inputVars, runVars, libVars, allParameters, pagesFetched, parameters,
                  options, pc, exitCode, parameterNames, batchVars, listCalls, answers >>

\* getParametersByPath rejected: listParameters maps "not found" to an empty
\* listing and rethrows the rest, which purge() turns into process.exit(1)
ListReject(error) ==
  /\ pc = "listing"
  /\ IF error.name = "ParameterNotFound"
        \/ includes(error.message, <<"n","o","t"," ","f","o","u","n","d">>)
     THEN Return
     ELSE Exit(1)
  /\ UNCHANGED << inputVars, runVars, libVars, pageVars, parameters, options, store, parameterNames, batchVars, listCalls, answers >>

\* answer1.toLowerCase() !== 'yes', negated
FirstConfirmed(answer1) == toLowerCase(answer1) = Yes

\* the mutant: the typed namespace is accepted with trailing slashes
SecondConfirmedLoosely(answer2) == stripTrailingSlashes(answer2) = options.namespace

\* resolve(answer2 === this.namespace)
SecondConfirmed(answer2) == answer2 = options.namespace

\* askConfirmation, first rl.question callback
Answer1(answer1) ==
  /\ pc = "ask1"
  /\ answers' = Append(answers, answer1)
  /\ IF ~FirstConfirmed(answer1)
     THEN Return
     ELSE pc' = "ask2" /\ UNCHANGED exitCode
  /\ UNCHANGED << inputVars, runVars, libVars, pageVars, parameters, options, store, parameterNames, batchVars, listCalls >>

\* askConfirmation, second rl.question callback; purge() continues
Answer2(answer2) ==
  /\ pc = "ask2"
  /\ answers' = Append(answers, answer2)
  /\ IF SecondConfirmed(answer2)
     THEN deleteParameters(parameterNames)
     ELSE Return /\ UNCHANGED batchVars
  /\ UNCHANGED << inputVars, runVars, libVars, pageVars, parameters, options, store, parameterNames, listCalls >>

\* the 50ms timer of task i fires: deleteParameter is called
DeleteTimer(i) ==
  /\ pc = "deleting"
  /\ i \in DOMAIN task /\ task[i] = "delay"
  /\ task' = [task EXCEPT ![i] = "inflight"]
  /\ attempts' = Issued(task, task', attempts)
  /\ UNCHANGED << inputVars, runVars, libVars, pageVars, parameters, options, pc, exitCode, store, parameterNames, outcome,
                  results, fatalAt, listCalls, answers >>

\* purge(), after deleteParameters returned its results
PurgeReport == Return

\* deleteParameter of task i resolved
DeleteResolve(i) ==
  /\ pc = "deleting"
  /\ i \in DOMAIN task /\ task[i] = "inflight"
  /\ store' = Remove(store, parameterNames[i])
  /\ outcome' = [outcome EXCEPT ![i] = Fulfilled]
  /\ results' = results @@ (PromiseAllSlot(results, i) :> SuccessResult(parameterNames[i]))
  /\ task' = pLimitNext(task, i)
  /\ attempts' = Issued(task, task', attempts)
  /\ IF AllDone(task') THEN PurgeReport ELSE UNCHANGED << pc, exitCode >>
  /\ UNCHANGED << inputVars, runVars, libVars, pageVars, parameters, options, parameterNames, fatalAt, listCalls, answers >>

\* deleteParameter of task i rejected
DeleteReject(i, error) ==
  /\ pc = "deleting"
  /\ i \in DOMAIN task /\ task[i] = "inflight"
  /\ outcome' = [outcome EXCEPT ![i] = Rejected(error)]
  /\ results' = results @@
       (PromiseAllSlot(results, i) :> FailureResult(parameterNames[i], error))
  /\ task' = pLimitNext(task, i)
  /\ attempts' = Issued(task, task', attempts)
  /\ IF AllDone(task') THEN PurgeReport ELSE UNCHANGED << pc, exitCode >>
  /\ UNCHANGED << inputVars, runVars, libVars, pageVars, parameters, options, store, parameterNames, fatalAt, listCalls, answers >>

(***************************************************************************)
(* EnvSync: parsing, classification, path mapping.                         *)
(***************************************************************************)
Digits == {"0","1","2","3","4","5","6","7","8","9"}
Letters == { UpperChars[i] : i \in 1..26 } \cup { LowerChars[i] : i \in 1..26 }
WhiteSpace == {" ", "\t", "\r", "\n"}

RECURSIVE SkipWhile(_, _, _)
\* the first position >= k of s whose character is not in class (Len(s)+1 if none)
SkipWhile(s, k, class) ==
  IF k <= Len(s) /\ s[k] \in class THEN SkipWhile(s, k + 1, class) ELSE k

RECURSIVE LastNotIn(_, _, _)
LastNotIn(s, k, class) ==
  IF k >= 1 /\ s[k] \in class THEN LastNotIn(s, k - 1, class) ELSE k

trim(s) == SubSeq(s, SkipWhile(s, 1, WhiteSpace), LastNotIn(s, Len(s), WhiteSpace))

RECURSIVE IndexOf(_, _, _)
\* the first position >= k of s that holds character c (Len(s)+1 if none)
IndexOf(s, k, c) ==
  IF k <= Len(s) /\ s[k] # c THEN IndexOf(s, k + 1, c) ELSE k

\* s.split(sep) for a one-character separator: the pieces between the
\* occurrences of sep
split(s, sep) ==
  LET at == SelectSeq([i \in 1..Len(s) |-> i], LAMBDA i : s[i] = sep)
      n  == Len(at)
  IN  [j \in 1..(n + 1) |->
         SubSeq(s, IF j = 1 THEN 1 ELSE at[j - 1] + 1,
                   IF j = n + 1 THEN Len(s) ELSE at[j] - 1)]

\* line.match(/^([A-Z_][A-Z0-9_]*)\s*=\s*(.*)$/i) on a trimmed line:
\* <<key, value>> or <<>> when the line does not match
MatchKeyValue(line) ==
  LET keyEnd == SkipWhile(line, 1, Letters \cup Digits \cup {"_"})
      eq     == SkipWhile(line, keyEnd, WhiteSpace)
      val    == SkipWhile(line, eq + 1, WhiteSpace)
      value  == SubSeq(line, val, Len(line))
  IN  IF /\ line # <<>> /\ line[1] \in Letters \cup {"_"}
         /\ eq <= Len(line) /\ line[eq] = "="
         /\ \A i \in 1..Len(value) : value[i] \notin {"\n", "\r"}
      THEN << SubSeq(line, 1, keyEnd - 1), value >>
      ELSE <<>>

\* the surrounding-quote removal of EnvSync.parseEnvContent
CleanValue(value) ==
  LET cleanValue == trim(value)
  IN
  IF  \/ startsWith(cleanValue, <<"\"">>) /\ endsWith(cleanValue, <<"\"">>)
      \/ startsWith(cleanValue, <<"'">>) /\ endsWith(cleanValue, <<"'">>)
  THEN SubSeq(cleanValue, 2, Len(cleanValue) - 1)
  ELSE cleanValue

\* envVars[key] = value on an insertion-ordered object created by {}: the
\* assignment of a string to __proto__ adds no property
SetVar(envVars, key, value) ==
  IF key = <<"_","_","p","r","o","t","o","_","_">> THEN envVars
  ELSE IF \E i \in 1..Len(envVars) : envVars[i].key = key
  THEN [i \in 1..Len(envVars) |->
          IF envVars[i].key = key THEN [key |-> key, value |-> value] ELSE envVars[i]]
  ELSE Append(envVars, [key |-> key, value |-> value])

RECURSIVE ParseLines(_, _, _)
ParseLines(lines, k, envVars) ==
  IF k > Len(lines) THEN envVars
  ELSE LET line == trim(lines[k])
           match == MatchKeyValue(line)
       IN  IF line = <<>> \/ line[1] = "#" \/ match = <<>>
           THEN ParseLines(lines, k + 1, envVars)
           ELSE ParseLines(lines, k + 1, SetVar(envVars, match[1], CleanValue(match[2])))

\* EnvSync.parseEnvContent
parseEnvContent(content) == ParseLines(split(content, "\n"), 1, <<>>)

\* SECRET_PATTERNS, each /word/i
SECRET_PATTERNS ==
  << <<"p","a","s","s","w","o","r","d">>, <<"s","e","c","r","e","t">>, <<"k","e","y">>,
     <<"t","o","k","e","n">>, <<"a","u","t","h">>,
     <<"c","r","e","d","e","n","t","i","a","l">>, <<"p","a","s","s">>, <<"p","w","d">>,
     <<"p","r","i","v","a","t","e">>, <<"c","e","r","t">>, <<"s","s","l">>, <<"t","l","s">>,
     <<"e","n","c","r","y","p","t">>, <<"h","a","s","h">>, <<"s","a","l","t">> >>

Base64Chars == Letters \cup Digits \cup {"+", "/", "="}
SecretRunLength == 20

\* /[A-Za-z0-9+/=]{20,}/.test(value)
HasBase64Run(value) ==
  \E i \in 1..Len(value) :
     /\ i + SecretRunLength - 1 <= Len(value)
     /\ \A j \in i..(i + SecretRunLength - 1) : value[j] \in Base64Chars

Http == <<"h","t","t","p",":","/","/">>
Https == <<"h","t","t","p","s",":","/","/">>

\* the mutant: a value of exactly 20 characters counts as long
isSecretFromTwenty(encrypt, key, value) ==
  LET keyIsSecret ==
        \E k \in 1..Len(SECRET_PATTERNS) : includes(toLowerCase(key), SECRET_PATTERNS[k])
      valueIsSecret ==
        /\ Len(value) >= SecretRunLength
        /\ HasBase64Run(value)
        /\ ~(startsWith(value, Http) \/ startsWith(value, Https))
        /\ ~(value # <<>> /\ \A i \in 1..Len(value) : value[i] \in Digits)
  IN  encrypt \/ keyIsSecret \/ valueIsSecret

\* EnvSync.isSecret
isSecret(encrypt, key, value) ==
  LET keyIsSecret ==
        \E k \in 1..Len(SECRET_PATTERNS) : includes(toLowerCase(key), SECRET_PATTERNS[k])
      valueIsSecret ==
        /\ Len(value) > SecretRunLength
        /\ HasBase64Run(value)
        /\ ~(startsWith(value, Http) \/ startsWith(value, Https))
        /\ ~(value # <<>> /\ \A i \in 1..Len(value) : value[i] \in Digits)
  IN  encrypt \/ keyIsSecret \/ valueIsSecret

\* the mutant: the separator between namespace and key is left out
createParameterPathUnseparated(namespace, key) ==
  LET cleanNamespace == IF endsWith(namespace, Slash)
                        THEN SubSeq(namespace, 1, Len(namespace) - 1)
                        ELSE namespace
  IN  cleanNamespace \o key

\* EnvSync.createParameterPath
createParameterPath(namespace, key) ==
  LET cleanNamespace == IF endsWith(namespace, Slash)
                        THEN SubSeq(namespace, 1, Len(namespace) - 1)
                        ELSE namespace
  IN  cleanNamespace \o Slash \o key

\* fetch: param.Name.split('/').pop()
keyFromPath(path) == LET parts == split(path, "/") IN parts[Len(parts)]

\* `Environment variable ${key} synced from .env file`
DescriptionOf(key) ==
  << "Environment variable " >> \o key \o << " synced from .env file" >>

\* the mutant: the key is put in lower case in the path
prepareParametersLowerCased(o, envVars) ==
  [i \in 1..Len(envVars) |->
     [ Name        |-> createParameterPath(o.namespace, toLowerCase(envVars[i].key)),
       Value       |-> envVars[i].value,
       Type        |-> IF isSecret(o.encrypt, envVars[i].key, envVars[i].value)
                       THEN "SecureString" ELSE "String",
       Overwrite   |-> TRUE,
       Description |-> DescriptionOf(envVars[i].key) ]]

\* EnvSync.prepareParameters
prepareParameters(o, envVars) ==
  [i \in 1..Len(envVars) |->
     [ Name        |-> createParameterPath(o.namespace, envVars[i].key),
       Value       |-> envVars[i].value,
       Type        |-> IF isSecret(o.encrypt, envVars[i].key, envVars[i].value)
                       THEN "SecureString" ELSE "String",
       Overwrite   |-> TRUE,
       Description |-> DescriptionOf(envVars[i].key) ]]

(***************************************************************************)
(* lib/env-parser.js: the line-oriented parser with quote handling.        *)
(* Line indices are 1-based here: the code's lines[k] is lines[k + 1].     *)
(***************************************************************************)
\* the character U+0060 (a TLA+ string cannot hold it): one element of a
\* modelled string, as every other character is
Backtick == "backtick"

\* the backslash count loop over the characters before the last one:
\* for (let i = value.length - 2; i >= 0 && value[i] === '\\'; i--)
backslashCount(value) ==
  (Len(value) - 1) - LastNotIn(value, Len(value) - 1, {"\\"})

\* what a recognised escape sequence \X stands for
EscapeSequences ==
  [c \in {"n", "r", "t", "\"", "'", "\\"} |->
     CASE c = "n" -> "\n" [] c = "r" -> "\r" [] c = "t" -> "\t" [] OTHER -> c]

\* one iteration of the while loop of processEscapeSequences on its
\* variables result and i (nothing once i has reached the end of str)
processEscapeSequencesStep(str, st) ==
  IF st.i > Len(str) THEN st
  ELSE IF /\ str[st.i] = "\\" /\ st.i + 1 <= Len(str)
          /\ str[st.i + 1] \in DOMAIN EscapeSequences
       THEN [result |-> Append(st.result, EscapeSequences[str[st.i + 1]]), i |-> st.i + 2]
       ELSE [result |-> Append(st.result, str[st.i]), i |-> st.i + 1]

RECURSIVE processEscapeSequencesLoop(_, _, _)
\* n iterations of that loop, one after the other (the test of half.i, which
\* is always positive, makes the first half be computed before the second)
processEscapeSequencesLoop(str, st, n) ==
  IF n = 0 THEN st
  ELSE IF n = 1 THEN processEscapeSequencesStep(str, st)
  ELSE LET half == processEscapeSequencesLoop(str, st, n \div 2)
       IN  IF half.i > 0 THEN processEscapeSequencesLoop(str, half, n - (n \div 2))
           ELSE half

\* the loop ends after at most str.length iterations
processEscapeSequences(str) ==
  processEscapeSequencesLoop(str, [result |-> <<>>, i |-> 1], Len(str)).result

\* one step of the scan of str.replace(/\\'/g, "'")
replaceEscapedSingleQuotesStep(str, st) ==
  IF st.i > Len(str) THEN st
  ELSE IF str[st.i] = "\\" /\ st.i + 1 <= Len(str) /\ str[st.i + 1] = "'"
       THEN [result |-> Append(st.result, "'"), i |-> st.i + 2]
       ELSE [result |-> Append(st.result, str[st.i]), i |-> st.i + 1]

RECURSIVE replaceEscapedSingleQuotesLoop(_, _, _)
replaceEscapedSingleQuotesLoop(str, st, n) ==
  IF n = 0 THEN st
  ELSE IF n = 1 THEN replaceEscapedSingleQuotesStep(str, st)
  ELSE LET half == replaceEscapedSingleQuotesLoop(str, st, n \div 2)
       IN  IF half.i > 0 THEN replaceEscapedSingleQuotesLoop(str, half, n - (n \div 2))
           ELSE half

\* str.replace(/\\'/g, "'")
replaceEscapedSingleQuotes(str) ==
  replaceEscapedSingleQuotesLoop(str, [result |-> <<>>, i |-> 1], Len(str)).result

\* str.slice(0, -1)
DropLast(str) == SubSeq(str, 1, Len(str) - 1)

\* the mutant: the collection gives up one line early
ExceedsSafetyLimitEarly(lineIndex, currentIndex) == lineIndex - currentIndex >= 100

\* if (lineIndex - currentIndex > 100)
ExceedsSafetyLimit(lineIndex, currentIndex) == lineIndex - currentIndex > 100

\* the variables of a multi-line loop when it starts: nothing returned yet
CollectFrom(value, currentIndex) ==
  [done |-> FALSE, result |-> <<>>, fullValue |-> Tail(value), lineIndex |-> currentIndex]

\* fullValue += '\n' + lines[lineIndex] after lineIndex++
AppendNextLine(lines, st) ==
  [st EXCEPT !.fullValue = @ \o <<"\n">> \o lines[st.lineIndex + 1],
             !.lineIndex = @ + 1]

\* return result, out of the loop
ReturnFromLoop(st, result) == [st EXCEPT !.done = TRUE, !.result = result]

\* the mutant: any trailing double quote closes the value
DoubleQuoteClosesAlways(text) == endsWith(text, <<"\"">>)

\* text.endsWith('"') with an even backslashCount
DoubleQuoteCloses(text) ==
  endsWith(text, <<"\"">>) /\ backslashCount(text) % 2 = 0

\* one iteration of the while loop of parseDoubleQuoted (nothing once the
\* function has returned or lineIndex has reached the last line)
collectDoubleQuotedStep(value, lines, currentIndex, st) ==
  IF st.done \/ ~(st.lineIndex < Len(lines)) THEN st
  ELSE IF DoubleQuoteCloses(st.fullValue)
  THEN ReturnFromLoop(st, processEscapeSequences(DropLast(st.fullValue)))
  ELSE IF ExceedsSafetyLimit(st.lineIndex + 1, currentIndex)
  THEN ReturnFromLoop(st, value)
  ELSE AppendNextLine(lines, st)

RECURSIVE collectDoubleQuotedLoop(_, _, _, _, _)
\* n iterations of that loop, one after the other
collectDoubleQuotedLoop(value, lines, currentIndex, st, n) ==
  IF n = 0 THEN st
  ELSE IF n = 1 THEN collectDoubleQuotedStep(value, lines, currentIndex, st)
  ELSE LET half == collectDoubleQuotedLoop(value, lines, currentIndex, st, n \div 2)
       IN  IF half.lineIndex > 0
           THEN collectDoubleQuotedLoop(value, lines, currentIndex, half, n - (n \div 2))
           ELSE half

\* the while loop of parseDoubleQuoted, which ends after at most lines.length
\* iterations, and the check after it
collectDoubleQuoted(value, lines, currentIndex) ==
  LET st == collectDoubleQuotedLoop(value, lines, currentIndex,
                                    CollectFrom(value, currentIndex), Len(lines))
  IN  IF st.done THEN st.result
      ELSE IF DoubleQuoteCloses(st.fullValue)
      THEN processEscapeSequences(DropLast(st.fullValue))
      ELSE value

parseDoubleQuoted(value, lines, currentIndex) ==
  IF Len(value) > 1 /\ DoubleQuoteCloses(value)
  THEN processEscapeSequences(SubSeq(value, 2, Len(value) - 1))
  ELSE collectDoubleQuoted(value, lines, currentIndex)

\* value.endsWith("'") with an even backslashCount (the opening line)
SingleQuoteCloses(text) ==
  endsWith(text, <<"'">>) /\ backslashCount(text) % 2 = 0

\* fullValue.endsWith("'") && !fullValue.endsWith("\\'") (the collected lines)
SingleQuoteClosesCollected(text) ==
  endsWith(text, <<"'">>) /\ ~endsWith(text, <<"\\", "'">>)

\* one iteration of the while loop of parseSingleQuoted
collectSingleQuotedStep(value, lines, currentIndex, st) ==
  IF st.done \/ ~(st.lineIndex < Len(lines)) THEN st
  ELSE IF SingleQuoteClosesCollected(st.fullValue)
  THEN ReturnFromLoop(st, replaceEscapedSingleQuotes(DropLast(st.fullValue)))
  ELSE IF ExceedsSafetyLimit(st.lineIndex + 1, currentIndex)
  THEN ReturnFromLoop(st, value)
  ELSE AppendNextLine(lines, st)

RECURSIVE collectSingleQuotedLoop(_, _, _, _, _)
collectSingleQuotedLoop(value, lines, currentIndex, st, n) ==
  IF n = 0 THEN st
  ELSE IF n = 1 THEN collectSingleQuotedStep(value, lines, currentIndex, st)
  ELSE LET half == collectSingleQuotedLoop(value, lines, currentIndex, st, n \div 2)
       IN  IF half.lineIndex > 0
           THEN collectSingleQuotedLoop(value, lines, currentIndex, half, n - (n \div 2))
           ELSE half

\* the while loop of parseSingleQuoted and the check after it
collectSingleQuoted(value, lines, currentIndex) ==
  LET st == collectSingleQuotedLoop(value, lines, currentIndex,
                                    CollectFrom(value, currentIndex), Len(lines))
  IN  IF st.done THEN st.result
      ELSE IF SingleQuoteClosesCollected(st.fullValue)
      THEN replaceEscapedSingleQuotes(DropLast(st.fullValue))
      ELSE value

parseSingleQuoted(value, lines, currentIndex) ==
  IF Len(value) > 1 /\ SingleQuoteCloses(value)
  THEN replaceEscapedSingleQuotes(SubSeq(value, 2, Len(value) - 1))
  ELSE collectSingleQuoted(value, lines, currentIndex)

\* one iteration of the while loop of parseBacktickQuoted
collectBacktickQuotedStep(value, lines, currentIndex, st) ==
  IF st.done \/ ~(st.lineIndex < Len(lines)) THEN st
  ELSE IF endsWith(st.fullValue, << Backtick >>)
  THEN ReturnFromLoop(st, DropLast(st.fullValue))
  ELSE IF ExceedsSafetyLimit(st.lineIndex + 1, currentIndex)
  THEN ReturnFromLoop(st, value)
  ELSE AppendNextLine(lines, st)

RECURSIVE collectBacktickQuotedLoop(_, _, _, _, _)
collectBacktickQuotedLoop(value, lines, currentIndex, st, n) ==
  IF n = 0 THEN st
  ELSE IF n = 1 THEN collectBacktickQuotedStep(value, lines, currentIndex, st)
  ELSE LET half == collectBacktickQuotedLoop(value, lines, currentIndex, st, n \div 2)
       IN  IF half.lineIndex > 0
           THEN collectBacktickQuotedLoop(value, lines, currentIndex, half, n - (n \div 2))
           ELSE half

\* the while loop of parseBacktickQuoted and the check after it
collectBacktickQuoted(value, lines, currentIndex) ==
  LET st == collectBacktickQuotedLoop(value, lines, currentIndex,
                                      CollectFrom(value, currentIndex), Len(lines))
  IN  IF st.done THEN st.result
      ELSE IF endsWith(st.fullValue, << Backtick >>)
      THEN DropLast(st.fullValue)
      ELSE value

parseBacktickQuoted(value, lines, currentIndex) ==
  IF Len(value) > 1 /\ endsWith(value, << Backtick >>)
  THEN SubSeq(value, 2, Len(value) - 1)
  ELSE collectBacktickQuoted(value, lines, currentIndex)

\* the mutant: an unclosed value is returned without its opening quote
parseValueUnquoting(rawValue, lines, currentIndex) ==
  LET value == trim(rawValue)
      parsed == IF rawValue = <<>> THEN <<>>
                ELSE IF startsWith(value, <<"\"">>)
                THEN parseDoubleQuoted(value, lines, currentIndex)
                ELSE IF startsWith(value, <<"'">>)
                THEN parseSingleQuoted(value, lines, currentIndex)
                ELSE IF startsWith(value, << Backtick >>)
                THEN parseBacktickQuoted(value, lines, currentIndex)
                ELSE value
  IN  IF parsed = value /\ value # <<>> /\ value[1] \in {"\"", "'", Backtick}
      THEN Tail(value) ELSE parsed

parseValue(rawValue, lines, currentIndex) ==
  LET value == trim(rawValue)
  IN  IF rawValue = <<>> THEN <<>>
      ELSE IF startsWith(value, <<"\"">>)
      THEN parseDoubleQuoted(value, lines, currentIndex)
      ELSE IF startsWith(value, <<"'">>)
      THEN parseSingleQuoted(value, lines, currentIndex)
      ELSE IF startsWith(value, << Backtick >>)
      THEN parseBacktickQuoted(value, lines, currentIndex)
      ELSE value

\* the body of the for loop of parseEnvContent of lib/env-parser.js
EnvParserLine(lines, i, envVars) ==
  LET line == lines[i]
      match == MatchKeyValue(line)
  IN  IF trim(line) = <<>> \/ startsWith(trim(line), <<"#">>) \/ match = <<>>
      THEN envVars
      ELSE SetVar(envVars, match[1], parseValue(match[2], lines, i))

RECURSIVE EnvParserLines(_, _, _, _)
\* the iterations lo..hi of that loop, one after the other
EnvParserLines(lines, lo, hi, envVars) ==
  IF lo > hi THEN envVars
  ELSE IF lo = hi THEN EnvParserLine(lines, lo, envVars)
  ELSE LET half == EnvParserLines(lines, lo, (lo + hi) \div 2, envVars)
       IN  IF Len(half) >= 0 THEN EnvParserLines(lines, ((lo + hi) \div 2) + 1, hi, half)
           ELSE half

\* parseEnvContent of lib/env-parser.js
EnvParser_parseEnvContent(content) ==
  LET lines == split(content, "\n")
  IN  EnvParserLines(lines, 1, Len(lines), <<>>)

(***************************************************************************)
(* EnvSync: the engine.                                                    *)
(***************************************************************************)
\* the mutant: no default for the file path
EnvSyncWithoutDefault(o) ==
  [ namespace  |-> o.namespace,
    force      |-> FALSE,
    paranoid   |-> FALSE,
    dryRun     |-> o.dryRun = "true",
    encrypt    |-> o.encrypt = "true",
    filePath   |-> o.filePath,
    envContent |-> o.envContent ]

\* constructor
EnvSync(o) ==
  [ namespace  |-> o.namespace,
    force      |-> FALSE,
    paranoid   |-> FALSE,
    dryRun     |-> o.dryRun = "true",
    encrypt    |-> o.encrypt = "true",
    filePath   |-> IF o.filePath # "" THEN o.filePath ELSE ".env",
    envContent |-> o.envContent ]

\* index.js, sync command handler, up to `await envSync.sync()`
SyncCommand ==
  /\ pc = "cli" /\ cmd = "sync"
  /\ LET hasFile    == params.file # ""
         envContent == IF hasFile THEN <<>> ELSE stdin.content
     IN  IF ~hasFile /\ (stdin.isTTY \/ stdin.content = <<>>)
         THEN Exit(1) /\ UNCHANGED options
         ELSE IF profileToUse # "" /\ applyProfileThrows(profileToUse)
         THEN Exit(1) /\ UNCHANGED options
         ELSE IF finalParams.namespace = <<>> /\ processEnv.AWSENV_NAMESPACE = <<>>
         THEN Exit(1) /\ UNCHANGED options
         ELSE /\ options' = EnvSync(
                     [ namespace  |-> OrElse(finalParams.namespace,
                                             processEnv.AWSENV_NAMESPACE),
                       dryRun     |-> finalParams.dryRun,
                       encrypt    |-> finalParams.encrypt,
                       filePath   |-> IF envContent # <<>> THEN "" ELSE finalParams.file,
                       envContent |-> envContent ])
              /\ pc' = "sync"
              /\ UNCHANGED exitCode
  /\ UNCHANGED << inputVars, runVars, libVars, pageVars, store, parameterNames, parameters, batchVars, listCalls,
                  answers >>

\* uploadParameters, up to the first await: every record is handed to the pool
uploadParameters(prepared) ==
  /\ task' = pLimitMap(Len(prepared), UploadConcurrency)
  /\ attempts' = Issued(<<>>, task', <<>>)
  /\ outcome' = [i \in 1..Len(prepared) |-> Pending]
  /\ results' = <<>>
  /\ pc' = "uploading"
  /\ UNCHANGED << exitCode, fatalAt >>

\* the mutant: the dry-run flag is not honoured
DryRunIgnored == FALSE

\* if (this.dryRun)
DryRunStops == options.dryRun

\* sync(), from its entry to the await of uploadParameters
Sync ==
  /\ pc = "sync"
  /\ IF options.namespace = <<>>
     THEN Exit(1) /\ UNCHANGED << parameters, batchVars >>
     ELSE IF options.envContent = <<>> /\ options.filePath \notin DOMAIN files
     THEN Exit(1) /\ UNCHANGED << parameters, batchVars >>
     ELSE LET source  == IF options.envContent # <<>> THEN options.envContent
                         ELSE files[options.filePath]
              envVars == parseEnvContent(source)
          IN  IF Len(envVars) = 0
              THEN Return /\ UNCHANGED << parameters, batchVars >>
              ELSE /\ parameters' = prepareParameters(options, envVars)
                   /\ IF DryRunStops
                      THEN Return /\ UNCHANGED batchVars
                      ELSE uploadParameters(parameters')
  /\ UNCHANGED << inputVars, runVars, libVars, pageVars, options, store, parameterNames, listCalls, answers >>

\* the 50ms timer of task i fires: putParameter is called
UploadTimer(i) ==
  /\ pc = "uploading"
  /\ i \in DOMAIN task /\ task[i] = "delay"
  /\ task' = [task EXCEPT ![i] = "inflight"]
  /\ attempts' = Issued(task, task', attempts)
  /\ UNCHANGED << inputVars, runVars, libVars, pageVars, options, pc, exitCode, store, parameterNames, parameters,
                  outcome, results, fatalAt, listCalls, answers >>

\* the mutant: failures are reported but the run ends normally
SyncReportNoExit(res) == Return

\* sync(), after uploadParameters returned its results
SyncReport(res) ==
  IF \E i \in DOMAIN res : ~res[i].success THEN Exit(1) ELSE Return

\* the three catch branches of uploadParameters that call process.exit(1)
IsAuthenticationError(error) ==
  \/ error.name = "UnrecognizedClientException"
  \/ error.name = "InvalidClientTokenId"
  \/ includes(error.message, <<"s","e","c","u","r","i","t","y"," ","t","o","k","e","n">>)
  \/ includes(error.message, <<"i","n","v","a","l","i","d">>)

IsExpiredError(error) ==
  \/ error.name = "ExpiredToken"
  \/ error.name = "ExpiredTokenException"
  \/ includes(error.message, <<"e","x","p","i","r","e","d">>)

IsAccessDeniedError(error) ==
  \/ error.name = "AccessDeniedException"
  \/ error.name = "UnauthorizedException"
  \/ includes(error.message, <<"n","o","t"," ","a","u","t","h","o","r","i","z","e","d">>)

\* the mutant: the access-denied branch is missing
IsFatalAccessDeniedMissing(error) ==
  IsAuthenticationError(error) \/ IsExpiredError(error)

IsFatal(error) ==
  IsAuthenticationError(error) \/ IsExpiredError(error) \/ IsAccessDeniedError(error)

\* the mutant: the remediation message is printed but the process goes on
FatalAbortMissing(i) ==
  /\ fatalAt' = i
  /\ task' = pLimitNext(task, i)
  /\ attempts' = Issued(task, task', attempts)
  /\ results' = results @@ (i :> FailureResult(parameters[i].Name, NoError))
  /\ IF AllDone(task') THEN Exit(1) ELSE UNCHANGED << pc, exitCode >>

\* console.error(...); process.exit(1) of a fatal catch branch
FatalAbort(i) ==
  /\ Exit(1)
  /\ fatalAt' = i
  /\ UNCHANGED << task, attempts, results >>

\* the mutant: a parameter that exists is extended with the new value
putParameterAppending(st, p) ==
  [x \in DOMAIN st \cup {p.Name} |->
     IF x # p.Name THEN st[x]
     ELSE IF x \in DOMAIN st
     THEN [Value |-> st[x].Value \o <<",">> \o p.Value, Type |-> p.Type]
     ELSE [Value |-> p.Value, Type |-> p.Type]]

\* AwsSsm.putParameter resolved: PutParameter with Overwrite creates the
\* parameter or replaces its value and type
putParameter(st, p) ==
  [x \in DOMAIN st \cup {p.Name} |->
     IF x = p.Name THEN [Value |-> p.Value, Type |-> p.Type] ELSE st[x]]

\* putParameter of task i resolved
PutResolve(i) ==
  /\ pc = "uploading"
  /\ i \in DOMAIN task /\ task[i] = "inflight"
  /\ store' = putParameter(store, parameters[i])
  /\ outcome' = [outcome EXCEPT ![i] = Fulfilled]
  /\ results' = results @@ (PromiseAllSlot(results, i) :> SuccessResult(parameters[i].Name))
  /\ task' = pLimitNext(task, i)
  /\ attempts' = Issued(task, task', attempts)
  /\ IF AllDone(task') THEN SyncReport(results') ELSE UNCHANGED << pc, exitCode >>
  /\ UNCHANGED << inputVars, runVars, libVars, pageVars, options, parameterNames, parameters, fatalAt, listCalls,
                  answers >>

\* putParameter of task i rejected
PutReject(i, error) ==
  /\ pc = "uploading"
  /\ i \in DOMAIN task /\ task[i] = "inflight"
  /\ outcome' = [outcome EXCEPT ![i] = Rejected(error)]
  /\ IF IsFatal(error)
     THEN FatalAbort(i)
     ELSE /\ results' = results @@
            (PromiseAllSlot(results, i) :> FailureResult(parameters[i].Name, error))
          /\ task' = pLimitNext(task, i)
          /\ attempts' = Issued(task, task', attempts)
          /\ IF AllDone(task') THEN SyncReport(results') ELSE UNCHANGED << pc, exitCode >>
          /\ UNCHANGED fatalAt
  /\ UNCHANGED << inputVars, runVars, libVars, pageVars, options, store, parameterNames, parameters, listCalls,
                  answers >>

\* the command is run again with the same input, namespace and flags, on
\* the store as the run before left it
Rerun ==
  /\ cmd = "sync" /\ run < MaxRuns
  /\ pc = "returned" \/ (pc = "exited" /\ exitCode = 0)
  /\ run' = run + 1
  /\ storeAfterFirst' = IF run = 1 THEN store ELSE storeAfterFirst
  /\ pc' = IF entry = "cli" THEN "cli" ELSE "sync"
  /\ exitCode' = 0
  /\ parameters' = <<>>
  /\ task' = <<>> /\ attempts' = <<>> /\ outcome' = <<>> /\ results' = <<>>
  /\ UNCHANGED << inputVars, libVars, pageVars, options, store, parameterNames, fatalAt, listCalls,
                  answers >>

(***************************************************************************)
(* Explored inputs.                                                        *)
(***************************************************************************)
\* largest number of KEY=VALUE lines of a synced content
MaxLines == 4

\* K1=1 / B_KEY='x' / C = 3 / D= / E="q r" / F=6 / G=7
LinePool ==
  << <<"K","1","=","1">>,
     <<"B","_","K","E","Y","=","'","x","'">>,
     <<"C"," ","="," ","3">>,
     <<"D","=">>,
     <<"E","=","\"","q"," ","r","\"">>,
     <<"F","=","6">>,
     <<"G","=","7">> >>

NewLine == <<"\n">>

RECURSIVE JoinLines(_, _)
JoinLines(pool, k) ==
  IF k = 0 THEN <<>>
  ELSE IF k = 1 THEN pool[1]
  ELSE JoinLines(pool, k - 1) \o NewLine \o pool[k]

\* a comment, a blank line, a duplicated key, a line that is no assignment
ContentMixed == <<"#"," ","c","\n","\n","K","1","=","1","\n","b","a","d"," ","l","i","n","e","\n"," ","K","1"," ","="," ","\"","2","\""," ">>
ContentTwo == JoinLines(LinePool, 2)
ContentComment == <<"#"," ","o","n","l","y">>
FileContent == LinePool[6]

\* a double-quoted value with an escape sequence: K1="a\tb"
ContentEscaped == <<"K","1","=","\"","a","\\","t","b","\"">>

SmallContents == { ContentMixed, ContentTwo, ContentComment, ContentEscaped }
DeepContents == { JoinLines(LinePool, k) : k \in 1..MaxLines }

InitialValue == [Value |-> <<"o","l","d">>, Type |-> "String"]

\* a store with the first k pool names under NsA and one foreign parameter
StoreOf(k) ==
  [nm \in { NamePool(NsA)[i] : i \in 1..k } \cup { ForeignName } |-> InitialValue]

NoParams ==
  [ namespace |-> <<>>, profile |-> "", force |-> "undefined", paranoid |-> "undefined",
    dryRun |-> "undefined", encrypt |-> "undefined", file |-> "" ]

Terminal == [isTTY |-> TRUE, content |-> <<>>]
Pipe(content) == [isTTY |-> FALSE, content |-> content]

Flag == {"undefined", "true"}

ConfigSettings ==
  [ namespace : {<<>>, NsA \o Slash}, paranoid : {"undefined", "true", "false"},
    encrypt : {"undefined"} ]

\* the .awsenv files explored: none, or one in the working directory
ConfigFiles ==
  { NoFile } \cup
  { [exists |-> TRUE, profiles |-> pr] :
      pr \in [{"default"} -> ConfigSettings] \cup [{"default", "prod"} -> ConfigSettings] }

\* no library function is called directly
NoCall == [fn |-> "none"]
NoReturn == [done |-> FALSE]

NoLibraryCall == call = NoCall /\ ret = NoReturn

InitEngine ==
  /\ exitCode = 0
  /\ parameterNames = <<>>
  /\ parameters = <<>>
  /\ task = <<>>
  /\ attempts = <<>>
  /\ outcome = <<>>
  /\ results = <<>>
  /\ listCalls = 0
  /\ answers = <<>>
  /\ fatalAt = 0
  /\ run = 1
  /\ storeAfterFirst = <<>>
  /\ allParameters = <<>>
  /\ pagesFetched = 0
  /\ created = {}

NoCli ==
  /\ params = NoParams
  /\ processEnv = [AWSENV_NAMESPACE |-> <<>>]
  /\ awsenvFiles = << NoFile, NoFile, NoFile >>
  /\ awsCliProfiles = {}
  /\ stdin = Terminal

\* new EnvPurge(options) by a direct caller
InitPurgeApi ==
  /\ entry = "api" /\ cmd = "purge" /\ pc = "purge"
  /\ NoCli
  /\ files = <<>>
  /\ \E ns \in {<<>>, NsA, NsB}, f \in Flag, p \in Flag :
        options = EnvPurge([namespace |-> ns, force |-> f, paranoid |-> p])
  /\ \E k \in 0..MaxParams : store = StoreOf(k)
  /\ InitEngine
  /\ NoLibraryCall

\* `awsenv purge ...`
InitPurgeCli ==
  /\ entry = "cli" /\ cmd = "purge" /\ pc = "cli"
  /\ \E ns \in {<<>>, NsA}, pr \in {"", "default", "prod"}, f \in Flag, p \in Flag :
        params = [NoParams EXCEPT !.namespace = ns, !.profile = pr, !.force = f,
                                  !.paranoid = p]
  /\ \E ns \in {<<>>, NsA} : processEnv = [AWSENV_NAMESPACE |-> ns]
  /\ \E cf \in ConfigFiles : awsenvFiles = << cf, NoFile, NoFile >>
  /\ awsCliProfiles \in { {"default"}, {"default", "prod"} }
  /\ stdin = Terminal
  /\ files = <<>>
  /\ options = EnvPurge(NoParams)
  /\ \E k \in 0..MaxCliParams : store = StoreOf(k)
  /\ InitEngine
  /\ NoLibraryCall

FileSystems ==
  { <<>>, (".env" :> FileContent), ("f.env" :> FileContent),
    (".env" :> FileContent) @@ ("f.env" :> ContentTwo) }

\* new EnvSync(options) by a direct caller
InitSyncApi ==
  /\ entry = "api" /\ cmd = "sync" /\ pc = "sync"
  /\ NoCli
  /\ \/ /\ files \in FileSystems
        /\ \E ns \in {<<>>, NsA, NsA \o Slash}, d \in Flag, e \in Flag,
              fp \in {"", "f.env"}, c \in SmallContents \cup {<<>>} :
              options = EnvSync([namespace |-> ns, dryRun |-> d, encrypt |-> e,
                                 filePath |-> fp, envContent |-> c])
     \/ /\ files = <<>>
        /\ \E d \in Flag, c \in DeepContents :
              options = EnvSync([namespace |-> NsA, dryRun |-> d, encrypt |-> "undefined",
                                 filePath |-> "", envContent |-> c])
  /\ store = StoreOf(1)
  /\ InitEngine
  /\ NoLibraryCall

\* `awsenv sync ...`
InitSyncCli ==
  /\ entry = "cli" /\ cmd = "sync" /\ pc = "cli"
  /\ \E ns \in {<<>>, NsA}, pr \in {"", "default"}, d \in Flag, e \in Flag,
        f \in {"", "f.env"} :
        params = [NoParams EXCEPT !.namespace = ns, !.profile = pr, !.dryRun = d,
                                  !.encrypt = e, !.file = f]
  /\ \E ns \in {<<>>, NsB} : processEnv = [AWSENV_NAMESPACE |-> ns]
  /\ \E cf \in { NoFile,
                 [exists |-> TRUE,
                  profiles |-> ("default" :> [namespace |-> NsA \o Slash,
                                              paranoid |-> "undefined",
                                              encrypt |-> "true"])] } :
        awsenvFiles = << cf, NoFile, NoFile >>
  /\ awsCliProfiles \in { {}, {"default"} }
  /\ stdin \in { Terminal, Pipe(<<>>) } \cup { Pipe(c) : c \in SmallContents }
  /\ files \in { <<>>, ("f.env" :> FileContent) }
  /\ options = EnvSync([NoParams EXCEPT !.namespace = <<>>] @@
                       [filePath |-> "", envContent |-> <<>>])
  /\ store = StoreOf(1)
  /\ InitEngine
  /\ NoLibraryCall

Init == InitPurgeApi \/ InitPurgeCli \/ InitSyncApi \/ InitSyncCli

\* errors explored for a rejected deleteParameter / putParameter
DeleteErrors == { ErrPlain, ErrExpired }
PutErrors == RemoteErrors \cup { ErrInvalidValue }

Next ==
  \/ PurgeCommand
  \/ Purge
  \/ \E n \in 0..MaxResults : ListPage(n)
  \/ \E n \in 0..MaxResults : ListResolve(n)
  \/ \E error \in ListErrors : ListReject(error)
  \/ \E answer1 \in Answers : Answer1(answer1)
  \/ \E answer2 \in Answers : Answer2(answer2)
  \/ \E i \in 1..Len(task) : DeleteTimer(i)
  \/ \E i \in 1..Len(task) : DeleteResolve(i)
  \/ \E i \in 1..Len(task), error \in DeleteErrors : DeleteReject(i, error)
  \/ SyncCommand
  \/ Sync
  \/ \E i \in 1..Len(task) : UploadTimer(i)
  \/ \E i \in 1..Len(task) : PutResolve(i)
  \/ \E i \in 1..Len(task), error \in PutErrors : PutReject(i, error)
  \/ Rerun
  \/ \E name \in { AllNames[i] : i \in 1..Len(AllNames) } : ExternalPut(name)

Spec == Init /\ [][Next]_vars

\* the largest batch: a listing of MaxParams names or a file of MaxLines lines
MaxBatch == IF MaxParams > MaxLines THEN MaxParams ELSE MaxLines

\* one run of EnvPurge.purge or EnvSync.sync on an object of the class
InitBatch == InitPurgeApi \/ InitSyncApi

NextBatch ==
  \/ Purge
  \/ \E n \in 0..MaxResults : ListPage(n)
  \/ \E n \in 0..MaxResults : ListResolve(n)
  \/ \E error \in ListErrors : ListReject(error)
  \/ \E answer1 \in Answers : Answer1(answer1)
  \/ \E answer2 \in Answers : Answer2(answer2)
  \/ \E i \in 1..Len(task) : DeleteTimer(i)
  \/ \E i \in 1..Len(task) : DeleteResolve(i)
  \/ \E i \in 1..Len(task), error \in DeleteErrors : DeleteReject(i, error)
  \/ Sync
  \/ \E i \in 1..Len(task) : UploadTimer(i)
  \/ \E i \in 1..Len(task) : PutResolve(i)
  \/ \E i \in 1..Len(task), error \in PutErrors : PutReject(i, error)

\* setTimeout callbacks are run by the event loop once their 50ms have
\* passed, and every call made to the remote store settles
Fairness ==
  \A i \in 1..MaxBatch :
    /\ WF_vars(DeleteTimer(i))
    /\ WF_vars(DeleteResolve(i) \/ \E error \in DeleteErrors : DeleteReject(i, error))
    /\ WF_vars(UploadTimer(i))
    /\ WF_vars(PutResolve(i) \/ \E error \in PutErrors : PutReject(i, error))

FairSpec == InitBatch /\ [][NextBatch]_vars /\ Fairness

(***************************************************************************)
(* The library functions called directly: parseEnvContent of               *)
(* lib/env-parser.js, EnvSync.isSecret and EnvSync.prepareParameters.      *)
(***************************************************************************)
\* longest text explored after the opening quote of a quoted value
MaxTail == 4
\* largest number of entries of a mapping handed to prepareParameters
MaxEntries == 2

Quotes == {"\"", "'", Backtick}

\* the characters of the explored texts after the opening quote q
TailChars(q) == {q, "'", "\\", "n", " ", "\n"}

\* K=<q><tail>: a quoted value of the key K, closed or not, on one or more lines
QuotedContent(q, tail) == <<"K", "=", q>> \o tail

QuotedContents ==
  { QuotedContent(q, tail) :
      q \in Quotes, tail \in UNION { [1..n -> TailChars("\"") \cup {Backtick}] : n \in 0..0 } }
  \cup UNION { { QuotedContent(q, tail) : tail \in UNION { [1..n -> TailChars(q)] : n \in 1..MaxTail } }
               : q \in Quotes }

\* K=<q>s, then `fillers` lines n, then the line e<q>, then the line K2=v
LongContent(q, fillers) ==
  <<"K", "=", q, "s">> \o [i \in 1..(2 * fillers) |-> IF i % 2 = 1 THEN "\n" ELSE "n"]
    \o <<"\n", "e", q, "\n", "K", "2", "=", "v">>

\* the closing line is the 2nd, 99th, 100th, 101st or 103rd appended line
LongContents == { LongContent(q, fillers) : q \in Quotes, fillers \in {1, 98, 99, 100, 102} }

\* K=<q>a, then the line B=2, then the line c<q>, then the line K2=v
ContinuedContent(q) ==
  <<"K", "=", q, "a", "\n", "B", "=", "2", "\n", "c", q, "\n", "K", "2", "=", "v">>

\* quoted values with a continuation line that reads as an assignment
ContinuedContents == { ContinuedContent(q) : q \in Quotes }

ParsedContents ==
  QuotedContents \cup LongContents \cup ContinuedContents \cup SmallContents
    \cup DeepContents \cup {<<>>}

\* str.toUpperCase() of a lower-case word
toUpperCase(s) ==
  [i \in 1..Len(s) |->
     IF \E k \in 1..26 : LowerChars[k] = s[i]
     THEN UpperChars[CHOOSE k \in 1..26 : LowerChars[k] = s[i]]
     ELSE s[i]]

Rep(c, n) == [i \in 1..n |-> c]

\* keys handed to isSecret: every sensitive word in lower case, in upper case
\* and inside a longer name, and names that hold none of them
ClassifiedKeys ==
  UNION { { SECRET_PATTERNS[k], toUpperCase(SECRET_PATTERNS[k]),
            <<"M", "Y", "_">> \o toUpperCase(SECRET_PATTERNS[k]) \o <<"_", "1">> }
          : k \in 1..Len(SECRET_PATTERNS) }
  \cup { <<"N","A","M","E">>, <<"H","O","S","T">>, <<"P","A","_","S","S">>,
         <<"K","_","E","Y">>, <<"T","O","K","E">>, <<"U","R","L">> }

\* values handed to isSecret, around the length and run limits
ClassifiedValues ==
  { <<>>, <<"a","b","c">>,
    Rep("x", 19), Rep("x", 20), Rep("x", 21),
    Rep("x", 10) \o <<"-">> \o Rep("x", 10),
    <<"-">> \o Rep("x", 20),
    <<"-">> \o Rep("x", 19) \o <<"-">>,
    Rep("7", 21), Rep("7", 20) \o <<"x">>,
    Http \o Rep("x", 20), Https \o Rep("x", 20),
    <<"h","t","t","p",":","/">> \o Rep("x", 20),
    <<"H","T","T","P",":","/","/">> \o Rep("x", 20),
    Rep("+", 7) \o Rep("/", 7) \o Rep("=", 7),
    Rep(" ", 21) }

\* entries of the mappings handed to prepareParameters
EntryPool ==
  { [key |-> <<"K","1">>, value |-> <<"1">>],
    [key |-> <<"A","P","I","_","K","E","Y">>, value |-> <<"v">>],
    [key |-> <<"U","R","L">>, value |-> Https \o Rep("x", 20)],
    [key |-> <<"B","L","O","B">>, value |-> Rep("x", 21)],
    [key |-> <<"D">>, value |-> <<>>],
    [key |-> <<"V">>, value |-> <<" ","a"," ">>] }

\* ordered mappings: sequences of entries with pairwise distinct keys
Mappings ==
  { m \in UNION { [1..n -> EntryPool] : n \in 0..MaxEntries } :
      \A i, j \in DOMAIN m : i # j => m[i].key # m[j].key }

Namespaces == { NsA, NsA \o Slash, NsA \o Slash \o Slash }

\* namespaces and keys handed to createParameterPath
PathNamespaces ==
  Namespaces \cup { <<>>, Slash, NsA \o Slash \o <<"b">>,
                    NsA \o Slash \o <<"b">> \o Slash \o Slash \o Slash }
PathKeys ==
  { <<"K","1">>, <<"A","_","B">>, <<>>, <<"a","/","b">>, Slash, <<"K","/">> }

\* entries written by sync and read back by fetch
RoundTripKeys == { <<"K","1">>, <<"A","_","B">>, <<"_","_","p","r","o","t","o","_","_">> }
RoundTripValues ==
  { <<"1">>, <<"a"," ","b">>, <<"a","=","b","#","c">>, <<>>,
    <<" ","a">>, <<"a"," ">>, <<"a","\n","b">>, <<"a","\r","b">>,
    <<"\"","a","\"">>, <<"'","a">>, <<"a","\"">> }
RoundTripEntries ==
  { m \in UNION { [1..n -> [key : RoundTripKeys, value : RoundTripValues]] : n \in 0..MaxEntries } :
      \A i, j \in DOMAIN m : i # j => m[i].key # m[j].key }

\* the parameters of the store that hold the entries under a namespace
StoredParameters(namespace, entries) ==
  [i \in 1..Len(entries) |->
     [Name |-> createParameterPath(namespace, entries[i].key), Value |-> entries[i].value]]

\* fetch: param.Value.trim().replace(/\n/g, '')
fetchValue(value) == SelectSeq(trim(value), LAMBDA c : c # "\n")

\* fetch without exporter: `${param.key}=${param.value}`
fetchLine(param) == keyFromPath(param.Name) \o <<"=">> \o fetchValue(param.Value)

\* the orders .sort((a, b) => a.key.localeCompare(b.key)) may put n
\* variables in: the collation is the locale's, so any order is allowed for
Orders(n) == { f \in [1..n -> 1..n] : \A i, j \in 1..n : i # j => f[i] # f[j] }

\* fetch: the text written to stdout for the parameters in the given order
fetchOutput(stored, order) ==
  JoinLines([i \in 1..Len(stored) |-> fetchLine(stored[order[i]])], Len(stored))

\* everything but the call and its return value
engineVars ==
  << inputVars, runVars, pageVars, options, pc, exitCode, store, parameterNames, parameters,
     batchVars, listCalls, answers >>

\* a program that only calls one of the library functions
InitLib ==
  /\ entry = "api" /\ cmd = "lib" /\ pc = "lib"
  /\ NoCli
  /\ files = <<>>
  /\ options = EnvSync([NoParams EXCEPT !.namespace = <<>>] @@
                       [filePath |-> "", envContent |-> <<>>])
  /\ store = <<>>
  /\ InitEngine
  /\ \/ \E content \in ParsedContents :
          call = [fn |-> "parseEnvContent", content |-> content]
     \/ \E encrypt \in BOOLEAN, key \in ClassifiedKeys, value \in ClassifiedValues :
          call = [fn |-> "isSecret", encrypt |-> encrypt, key |-> key, value |-> value]
     \/ \E entries \in RoundTripEntries :
          call = [fn |-> "roundTrip", namespace |-> NsA, entries |-> entries]
     \/ \E namespace \in PathNamespaces, key \in PathKeys :
          call = [fn |-> "createParameterPath", namespace |-> namespace, key |-> key]
     \/ \E namespace \in Namespaces, encrypt \in BOOLEAN, envVars \in Mappings :
          call = [fn |-> "prepareParameters", namespace |-> namespace,
                  encrypt |-> encrypt, envVars |-> envVars]
  /\ ret = NoReturn

\* parseEnvContent(content) of lib/env-parser.js returns
ParseEnvContentCall ==
  /\ pc = "lib" /\ call.fn = "parseEnvContent" /\ ~ret.done
  /\ ret' = [done |-> TRUE, value |-> EnvParser_parseEnvContent(call.content)]
  /\ UNCHANGED << engineVars, call >>

\* new EnvSync({encrypt}).isSecret(key, value) returns
IsSecretCall ==
  /\ pc = "lib" /\ call.fn = "isSecret" /\ ~ret.done
  /\ ret' = [done |-> TRUE, value |-> isSecret(call.encrypt, call.key, call.value)]
  /\ UNCHANGED << engineVars, call >>

\* new EnvSync({namespace, encrypt}).prepareParameters(envVars) returns
PrepareParametersCall ==
  /\ pc = "lib" /\ call.fn = "prepareParameters" /\ ~ret.done
  /\ ret' = [done |-> TRUE,
             value |-> prepareParameters([namespace |-> call.namespace,
                                          encrypt |-> call.encrypt], call.envVars)]
  /\ UNCHANGED << engineVars, call >>

\* new EnvSync({namespace}).createParameterPath(key) returns the Name that
\* sync writes; fetch derives `key` from that Name
CreateParameterPathCall ==
  /\ pc = "lib" /\ call.fn = "createParameterPath" /\ ~ret.done
  /\ ret' = [done  |-> TRUE,
             value |-> createParameterPath(call.namespace, call.key),
             key   |-> keyFromPath(createParameterPath(call.namespace, call.key))]
  /\ UNCHANGED << engineVars, call >>

\* the output of fetch for the stored entries is parsed by parseEnvContent
RoundTripCall ==
  /\ pc = "lib" /\ call.fn = "roundTrip" /\ ~ret.done
  /\ \E order \in Orders(Len(call.entries)) :
        ret' = [done  |-> TRUE,
                value |-> EnvParser_parseEnvContent(
                            fetchOutput(StoredParameters(call.namespace, call.entries), order))]
  /\ UNCHANGED << engineVars, call >>

NextLib ==
  \/ ParseEnvContentCall
  \/ IsSecretCall
  \/ PrepareParametersCall
  \/ CreateParameterPathCall
  \/ RoundTripCall

LibSpec == InitLib /\ [][NextLib]_vars

(***************************************************************************)
(* Properties.                                                             *)
(***************************************************************************)
BatchRan == task # <<>>
Dispatched == { i \in DOMAIN attempts : attempts[i] > 0 }
FailedItems == { i \in DOMAIN outcome : outcome[i].settled = "err" }
NonZeroExit == pc = "exited" /\ exitCode # 0
ItemName(i) == IF cmd = "purge" THEN parameterNames[i] ELSE parameters[i].Name

\* C1: during uploadParameters and deleteParameters the number of remote
\* calls that were started and have not settled never exceeds 3.
C1_InFlightAtMostThree == Cardinality(InFlight(task)) <= 3

\* three uploads are in flight while a fourth item waits in the queue
C1_Witness ==
  pc = "uploading" /\ Cardinality(InFlight(task)) = 3 /\ Queued(task) # {}

\* C2: with paranoid = true purge makes no remote call (no listing, no
\* delete) and can only end by process.exit with a non-zero code, whatever
\* force and namespace are.
C2_ParanoidNoRemoteCall ==
  (cmd = "purge" /\ options.paranoid) =>
     /\ listCalls = 0
     /\ Dispatched = {}
     /\ pc \in {"purge", "exited"}
     /\ pc = "exited" => exitCode # 0

\* a forced purge of a populated namespace was refused
C2_Witness ==
  /\ cmd = "purge" /\ options.paranoid /\ options.force
  /\ Listing(store, options.namespace) # <<>>
  /\ pc = "exited"

\* the config section that applies to a CLI invocation
ApplicableSection == IF params.profile # "" THEN params.profile ELSE "default"

\* C3: when the applicable section of .awsenv has paranoid = true, no
\* `awsenv purge` invocation issues a deleteParameter call, whatever the
\* CLI flags.
C3_ConfigParanoidBlocksPurge ==
  (cmd = "purge" /\ entry = "cli"
     /\ getAwsEnvConfig(ApplicableSection).paranoid = "true") => Dispatched = {}

Declined(firstOk) ==
  /\ answers # <<>>
  /\ \/ ~firstOk
     \/ Len(answers) = 2 /\ answers[2] # options.namespace

\* C4 as stated: without force no delete is issued unless the operator
\* typed the literal "yes" and then exactly the namespace; a declined purge
\* ends with no delete and no error exit.
C4_LiteralYesThenNamespace ==
  (cmd = "purge" /\ ~options.force /\ parameterNames # <<>>) =>
     /\ Dispatched # {} =>
          Len(answers) = 2 /\ answers[1] = Yes /\ answers[2] = options.namespace
     /\ (Ended /\ Declined(answers[1] = Yes)) => (Dispatched = {} /\ ~NonZeroExit)

\* C4 as amended: without force no delete is issued unless the operator
\* first typed "yes" in any letter case and then exactly the namespace; a
\* declined purge ends with no delete and no error exit.
C4_YesAnyCaseThenNamespace ==
  (cmd = "purge" /\ ~options.force /\ parameterNames # <<>>) =>
     /\ Dispatched # {} =>
          /\ Len(answers) = 2
          /\ toLowerCase(answers[1]) = Yes
          /\ answers[2] = options.namespace
     /\ (Ended /\ Declined(toLowerCase(answers[1]) = Yes)) =>
          (Dispatched = {} /\ ~NonZeroExit)

\* deletes run after both prompts were answered
C4_Witness ==
  cmd = "purge" /\ ~options.force /\ pc = "deleting" /\ Len(answers) = 2

\* C5: with --force the operator must still have typed the exact namespace
\* before any deleteParameter call is issued.
C5_ForceStillAsksNamespace ==
  (cmd = "purge" /\ options.force /\ Dispatched # {}) =>
     (answers # <<>> /\ answers[Len(answers)] = options.namespace)

\* C6: a sync with dryRun = true issues no putParameter call and leaves the
\* remote store as it was.
C6_DryRunNoWrites ==
  [][(cmd = "sync" /\ options'.dryRun) =>
        (store' = store /\ \A i \in DOMAIN attempts' : attempts'[i] = 0)]_vars

\* a dry run that prepared several records has ended
C6_Witness ==
  cmd = "sync" /\ options.dryRun /\ Ended /\ Len(parameters) >= 2

\* C7: in a batch whose rejections are all per-item errors no item is ever
\* called twice, and when the batch has ended every item was called exactly
\* once and the result list has one entry per item: the failure entry with
\* the error message for the rejected items, the success entry for the rest.
C7_EveryItemOnceAndReported ==
  /\ \A i \in DOMAIN attempts : attempts[i] <= 1
  /\ (Ended /\ BatchRan /\ fatalAt = 0) =>
       /\ DOMAIN results = DOMAIN task
       /\ \A i \in DOMAIN task :
            /\ attempts[i] = 1
            /\ outcome[i].settled # "no"
            /\ results[i] = IF outcome[i].settled = "err"
                            THEN [success |-> FALSE, parameter |-> ItemName(i),
                                  error |-> outcome[i].error.message]
                            ELSE [success |-> TRUE, parameter |-> ItemName(i)]

\* a batch of at least three items ended with a success and a failure
C7_Witness ==
  /\ Ended /\ fatalAt = 0 /\ Len(task) >= 3
  /\ \E i, j \in DOMAIN results : results[i].success /\ ~results[j].success

\* C8 as stated: after a fatal rejection of the write of item k, no write
\* of an item k+1..n was ever dispatched.
C8_NoLaterItemDispatched ==
  fatalAt # 0 => \A i \in DOMAIN attempts : i > fatalAt => attempts[i] = 0

\* C8 as amended: the step that handles a fatal rejection terminates the
\* process and dispatches nothing, and no write is dispatched afterwards
\* (writes of later items that were dispatched before it stay dispatched).
C8_NoDispatchAfterFatal ==
  [][fatalAt' # 0 => (attempts' = attempts /\ pc' = "exited" /\ exitCode' # 0)]_vars

\* a fatal rejection while a later item was still waiting in the queue
C8_Witness ==
  fatalAt # 0 /\ \E i \in DOMAIN task : i > fatalAt /\ task[i] = "queued"

\* C9: a sync whose batch ran without a fatal error ends with a non-zero
\* exit exactly when a write failed, only after every write has settled,
\* and every write that succeeded is applied in the store.
C9_SyncExitReflectsFailures ==
  (cmd = "sync" /\ Ended /\ BatchRan /\ fatalAt = 0) =>
     /\ NonZeroExit <=> FailedItems # {}
     /\ \A i \in DOMAIN task : outcome[i].settled # "no"
     /\ \A i \in DOMAIN task :
          outcome[i].settled = "ok" =>
            /\ parameters[i].Name \in DOMAIN store
            /\ store[parameters[i].Name] =
                 [Value |-> parameters[i].Value, Type |-> parameters[i].Type]

\* a sync ended with exit code 1 after one write succeeded and one failed
C9_Witness ==
  /\ cmd = "sync" /\ NonZeroExit /\ fatalAt = 0 /\ BatchRan
  /\ \E i, j \in DOMAIN outcome : outcome[i].settled = "ok" /\ outcome[j].settled = "err"

\* C10: a purge in which a delete failed ends with a non-zero exit status,
\* and a purge in which every delete succeeded ends with status zero.
C10_PurgeExitReflectsFailures ==
  (cmd = "purge" /\ Ended /\ BatchRan) => (NonZeroExit <=> FailedItems # {})

\* C11: at every moment of a batch, and so in the list that uploadParameters
\* or deleteParameters returns, the entry at position i of the result list
\* is the entry of the i-th input item, in whatever order the calls settled.
C11_ResultsAlignedWithInput ==
  \A i \in DOMAIN results : i \in DOMAIN task /\ results[i].parameter = ItemName(i)

\* a later item has settled while an earlier one is still waiting for its call
C11_Witness ==
  /\ BatchRan /\ fatalAt = 0
  /\ \E i, j \in DOMAIN task :
        i < j /\ j \in DOMAIN results /\ i \notin DOMAIN results /\ task[i] = "inflight"

\* C12: when sync has run again on the same input, namespace and flags and
\* every put of that run succeeded, the remote store is exactly as the first
\* run left it: the same paths with the same values and types.
C12_SecondRunSameStore ==
  (cmd = "sync" /\ run >= 2 /\ Ended /\ FailedItems = {} /\ fatalAt = 0) =>
     /\ DOMAIN store = DOMAIN storeAfterFirst
     /\ \A nm \in DOMAIN store : store[nm] = storeAfterFirst[nm]

\* a second run has written several parameters, one of which the first run
\* had replaced and one of which it had created
C12_Witness ==
  /\ cmd = "sync" /\ run = 2 /\ Ended /\ BatchRan
  /\ \A i \in DOMAIN outcome : outcome[i].settled = "ok"
  /\ Len(task) >= 2
  /\ \E nm \in DOMAIN store : nm \in DOMAIN StoreOf(1) /\ store[nm] # InitialValue
  /\ \E nm \in DOMAIN store : nm \notin DOMAIN StoreOf(1)

\* sync() got past its validation and read its value source
SourceRead ==
  /\ cmd = "sync" /\ pc \notin {"cli", "sync"}
  /\ options.namespace # <<>>
  /\ options.envContent # <<>> \/ options.filePath \in DOMAIN files

\* the text sync() parses
SyncSource ==
  IF options.envContent # <<>> THEN options.envContent ELSE files[options.filePath]

\* C13: the records sync classifies and uploads are those of the mapping
\* that parseEnvContent of lib/env-parser.js returns for the content of the
\* value source (and sync ends as a no-op exactly when that mapping is empty).
C13_SyncParsesWithEnvParser ==
  SourceRead =>
     LET envVars == EnvParser_parseEnvContent(SyncSource)
     IN  IF Len(envVars) = 0
         THEN parameters = <<>>
         ELSE parameters = prepareParameters(options, envVars)

\* the file path sync() reads when no text is supplied
EffectivePath == IF options.filePath # "" THEN options.filePath ELSE ".env"

Returned(fn) == call.fn = fn /\ ret.done

\* the value the returned mapping holds for key
ValueOf(mapping, key) ==
  mapping[CHOOSE i \in 1..Len(mapping) : mapping[i].key = key].value

\* the parsed text is K=<quote>...: a quoted value of the key K
QuotedCall == Returned("parseEnvContent") /\ call.content \in QuotedContents \cup LongContents
OpeningQuote == call.content[3]

LineFeeds(text) == SelectSeq([i \in 1..Len(text) |-> i], LAMBDA i : text[i] = "\n")
LineCount(text) == Len(LineFeeds(text)) + 1
LineEnd(text, j) == IF j = LineCount(text) THEN Len(text) ELSE LineFeeds(text)[j] - 1

\* the trimmed remainder of the first line after K=
OpeningValue(text) == trim(SubSeq(text, 3, LineEnd(text, 1)))

\* the text after the opening quote once k further lines have been appended
Accumulated(text, k) ==
  Tail(OpeningValue(text)) \o SubSeq(text, LineEnd(text, 1) + 1, LineEnd(text, k + 1))

\* the number of consecutive backslashes right before position i of str
BackslashesBefore(str, i) ==
  CHOOSE n \in 0..(i - 1) :
    /\ \A j \in 1..n : str[i - j] = "\\"
    /\ n = i - 1 \/ str[i - 1 - n] # "\\"

\* the text ends with the delimiter q after an even number of backslashes
EndsUnescaped(text, q) ==
  /\ text # <<>> /\ text[Len(text)] = q
  /\ BackslashesBefore(text, Len(text)) % 2 = 0

\* the text ends with the delimiter q right after a backslash
EndsEscaped(text, q) ==
  Len(text) >= 2 /\ text[Len(text)] = q /\ text[Len(text) - 1] = "\\"

\* the text accumulated after k appended lines closes the value
ClosesAfter(text, q, k) ==
  IF q = Backtick
  THEN Accumulated(text, k) # <<>> /\ Accumulated(text, k)[Len(Accumulated(text, k))] = q
  ELSE EndsUnescaped(Accumulated(text, k), q)

\* the number of appended lines the parser looks at
Lookahead == 100

\* the appended lines, none (0) included, that may close the value
ClosingLines(text, q) ==
  { k \in 0..Min({LineCount(text) - 1, Lookahead}) : ClosesAfter(text, q, k) }

\* an escape sequence starts at position i of str
EscapeAt(str, i) ==
  /\ str[i] = "\\" /\ BackslashesBefore(str, i) % 2 = 0
  /\ i < Len(str) /\ str[i + 1] \in {"n", "r", "t", "\"", "'", "\\"}

\* what the escape sequence \c stands for
Unescaped(c) ==
  CASE c = "n" -> "\n" [] c = "r" -> "\r" [] c = "t" -> "\t"
    [] c = "\"" -> "\"" [] c = "'" -> "'" [] c = "\\" -> "\\"

\* str with every escape sequence replaced, any other backslash kept
DecodedDouble(str) ==
  LET marks == [i \in 1..Len(str) |->
                  IF EscapeAt(str, i) THEN << TRUE, Unescaped(str[i + 1]) >>
                  ELSE IF i > 1 /\ EscapeAt(str, i - 1) THEN << FALSE, str[i] >>
                  ELSE << TRUE, str[i] >>]
      kept  == SelectSeq(marks, LAMBDA m : m[1])
  IN  [i \in 1..Len(kept) |-> kept[i][2]]

\* str without the backslash of every \'
DecodedSingle(str) ==
  LET marks == [i \in 1..Len(str) |->
                  << ~(str[i] = "\\" /\ i < Len(str) /\ str[i + 1] = "'"), str[i] >>]
      kept  == SelectSeq(marks, LAMBDA m : m[1])
  IN  [i \in 1..Len(kept) |-> kept[i][2]]

Decoded(q, str) ==
  IF q = "\"" THEN DecodedDouble(str) ELSE IF q = "'" THEN DecodedSingle(str) ELSE str

\* the value of K: the decoded text up to the first closing delimiter within
\* the lookahead, or else the opening value as it stands
QuotedValue(text, q) ==
  IF ClosingLines(text, q) = {} THEN OpeningValue(text)
  ELSE Decoded(q, DropLast(Accumulated(text, Min(ClosingLines(text, q)))))

\* the result is a mapping: entries with pairwise distinct, non-empty keys
IsMapping(m) ==
  /\ \A i \in 1..Len(m) : DOMAIN m[i] = {"key", "value"} /\ Len(m[i].key) > 0
  /\ \A i, j \in 1..Len(m) : i # j => m[i].key # m[j].key

\* C15: parseEnvContent of lib/env-parser.js returns a mapping for every
\* text, and for a key whose quoted value is closed on no line of the text
\* the value is the trimmed remainder of the key's line, opening quote
\* included, with nothing of the later lines.
C15_TotalAndUnclosedFallback ==
  /\ call.fn = "parseEnvContent" =>
       /\ pc = "lib"
       /\ IsMapping(EnvParser_parseEnvContent(call.content))
       /\ ret.done => ret.value = EnvParser_parseEnvContent(call.content)
  /\ (QuotedCall /\ \A k \in 0..(LineCount(call.content) - 1) :
                       ~ClosesAfter(call.content, OpeningQuote, k))
       => ValueOf(ret.value, <<"K">>) = OpeningValue(call.content)

\* an unclosed single-quoted value followed by further lines was returned
C15_Witness ==
  /\ QuotedCall /\ OpeningQuote = "'"
  /\ LineCount(call.content) >= 2
  /\ \A k \in 0..(LineCount(call.content) - 1) : ~ClosesAfter(call.content, "'", k)
  /\ ValueOf(ret.value, <<"K">>) = <<"'", "n">>

\* no accumulated text ends with a delimiter that follows a backslash
NoEscapedEnd(text, q) ==
  \A k \in 0..(LineCount(text) - 1) : ~EndsEscaped(Accumulated(text, k), q)

\* the appended lines among the first 100 that end with the delimiter
ClosingAppended(text, q) ==
  { k \in 1..Min({LineCount(text) - 1, Lookahead}) :
      Accumulated(text, k)[Len(Accumulated(text, k))] = q }

C17_DoubleQuotedClosing ==
  (QuotedCall /\ OpeningQuote = "\"") =>
     ValueOf(ret.value, <<"K">>) = QuotedValue(call.content, "\"")

\* K="\" followed by the line " : the quote of the opening line is escaped,
\* the next line closes the value, which decodes to a quote and a line feed
C17_Witness ==
  /\ QuotedCall /\ call.content = <<"K", "=", "\"", "\\", "\"", "\n", "\"">>
  /\ ValueOf(ret.value, <<"K">>) = <<"\"", "\n">>

\* C18: a single-quoted value ends at the first trailing single quote of
\* the accumulated text that follows an even number of backslashes, on the
\* opening line or on an appended line, and only \' is decoded.
C18_SingleQuotedClosing ==
  (QuotedCall /\ OpeningQuote = "'") =>
     ValueOf(ret.value, <<"K">>) = QuotedValue(call.content, "'")

\* the sensitive words
SensitiveWords ==
  { <<"p","a","s","s","w","o","r","d">>, <<"s","e","c","r","e","t">>, <<"k","e","y">>,
    <<"t","o","k","e","n">>, <<"a","u","t","h">>, <<"c","r","e","d","e","n","t","i","a","l">>,
    <<"p","a","s","s">>, <<"p","w","d">>, <<"p","r","i","v","a","t","e">>,
    <<"c","e","r","t">>, <<"s","s","l">>, <<"t","l","s">>, <<"e","n","c","r","y","p","t">>,
    <<"h","a","s","h">>, <<"s","a","l","t">> }

\* the key holds a sensitive word, in any letter case
HoldsSensitiveWord(key) ==
  \E i, j \in 1..Len(key) : toLowerCase(SubSeq(key, i, j)) \in SensitiveWords

\* the value looks like a secret
LooksSecret(value) ==
  /\ Len(value) > 20
  /\ \E i, j \in 1..Len(value) :
        j - i + 1 >= 20 /\ \A k \in i..j : value[k] \in Letters \cup Digits \cup {"+", "/", "="}
  /\ SubSeq(value, 1, 7) # Http /\ SubSeq(value, 1, 8) # Https
  /\ \E k \in 1..Len(value) : value[k] \notin Digits

\* C19: isSecret returns true for every key and value when the encrypt flag
\* is on; when it is off it returns true exactly when the key holds one of
\* the 15 sensitive words in any letter case, or the value is longer than 20
\* characters, holds a run of at least 20 characters of [A-Za-z0-9+/=], does
\* not start with http:// or https:// and is not all digits.
C19_IsSecretExactly ==
  Returned("isSecret") =>
     /\ Cardinality(SensitiveWords) = 15
     /\ ret.value = (call.encrypt \/ HoldsSensitiveWord(call.key) \/ LooksSecret(call.value))

\* a value of 21 characters with a run of exactly 20 was classified secret
\* under a key that holds no sensitive word
C19_Witness ==
  /\ Returned("isSecret") /\ ~call.encrypt /\ ~HoldsSensitiveWord(call.key)
  /\ call.value = <<"-">> \o Rep("x", 20) /\ ret.value

\* the path of a key: the namespace without its trailing slashes, one
\* slash, the key
toPath(namespace, key) ==
  SubSeq(namespace, 1, LastNotIn(namespace, Len(namespace), {"/"})) \o Slash \o key

\* C20: prepareParameters returns one record per entry of the mapping, in
\* the order of the mapping: toPath of namespace and key as Name, the value
\* as it is, SecureString exactly for the secret entries, Overwrite true.
C20_OneRecordPerEntry ==
  Returned("prepareParameters") =>
     /\ Len(ret.value) = Len(call.envVars)
     /\ \A i \in 1..Len(call.envVars) :
          /\ ret.value[i].Name = toPath(call.namespace, call.envVars[i].key)
          /\ ret.value[i].Value = call.envVars[i].value
          /\ ret.value[i].Type \in {"SecureString", "String"}
          /\ ret.value[i].Type = "SecureString" <=>
               isSecret(call.encrypt, call.envVars[i].key, call.envVars[i].value)
          /\ ret.value[i].Overwrite = TRUE

\* C21: for every namespace and every key without a slash, the last
\* slash-delimited segment of createParameterPath(key) is the key.
C21_KeyFromPathOfCreatedPath ==
  (Returned("createParameterPath") /\ \A i \in 1..Len(call.key) : call.key[i] # "/")
     => ret.key = call.key

\* the key K1 came back from its path under a namespace ending in slashes
C21_Witness ==
  /\ Returned("createParameterPath")
  /\ call.namespace = NsA \o Slash \o Slash /\ call.key = <<"K","1">>
  /\ ret.key = <<"K","1">>

\* C22: createParameterPath returns the namespace without any of its
\* trailing slashes, then one slash, then the key.
C22_StripsAllTrailingSlashes ==
  Returned("createParameterPath") => ret.value = toPath(call.namespace, call.key)

\* the step is a page of the listing that ends getParametersByPath
ListingCompletes ==
  pc = "listing" /\ pc' # "listing" /\ pagesFetched' = pagesFetched + 1

\* C23: purge asks nothing and deletes nothing while pages of the listing
\* are still to come; the listing it goes on with holds every name under the
\* namespace, page after page; and an empty listing ends the purge with
\* success, without a prompt and without a delete.
C23_AllPagesBeforePromptOrDelete ==
  /\ [](cmd = "purge" /\ pc = "listing" => answers = <<>> /\ task = <<>>)
  /\ [][ListingCompletes =>
         /\ parameterNames' = Listing(store, options.namespace)
         /\ store' = store
         /\ Listing(store, options.namespace) = <<>> =>
              /\ pc' = "returned" \/ (pc' = "exited" /\ exitCode' = 0)
              /\ answers' = <<>> /\ task' = <<>> /\ listCalls' = listCalls]_vars

\* the operator is asked after a listing of three names or more that came in
\* two pages or more
C23_Witness ==
  /\ cmd = "purge" /\ pc = "ask1"
  /\ pagesFetched >= 2 /\ Len(parameterNames) >= 3
  /\ parameterNames = Listing(store, options.namespace)

\* the key-to-value mapping of a sequence of entries
AsMapping(entries) == { << entries[i].key, entries[i].value >> : i \in 1..Len(entries) }

\* no value could be read as a quoted value: none starts with a quote
NoAmbiguousQuoting(entries) ==
  \A i \in 1..Len(entries) :
     entries[i].value = <<>> \/ entries[i].value[1] \notin {"\"", "'", Backtick}

\* C24: for entries without ambiguous quoting, parsing the text
\* that fetch writes for them (one KEY=value line per entry) gives the same
\* key-to-value mapping.
C24_RoundTrip ==
  (Returned("roundTrip") /\ NoAmbiguousQuoting(call.entries))
     => AsMapping(ret.value) = AsMapping(call.entries)

\* every value is free of surrounding white space and of line terminators,
\* and no key is __proto__
BareEntries(entries) ==
  \A i \in 1..Len(entries) :
     /\ entries[i].value = trim(entries[i].value)
     /\ \A k \in 1..Len(entries[i].value) : entries[i].value[k] \notin {"\n", "\r"}
     /\ entries[i].key # <<"_","_","p","r","o","t","o","_","_">>

\* what does hold: the round trip gives the same mapping for entries without
\* ambiguous quoting whose values have no surrounding white space and no
\* line terminator and whose keys are not __proto__
RoundTripOfBareEntries ==
  (Returned("roundTrip") /\ NoAmbiguousQuoting(call.entries) /\ BareEntries(call.entries))
     => AsMapping(ret.value) = AsMapping(call.entries)

\* the error names and message parts that tell an authentication, an
\* expired-token or an access-denied failure
FatalNames ==
  { "UnrecognizedClientException", "InvalidClientTokenId", "ExpiredToken",
    "ExpiredTokenException", "AccessDeniedException", "UnauthorizedException" }
FatalPhrases ==
  { <<"s","e","c","u","r","i","t","y"," ","t","o","k","e","n">>, <<"i","n","v","a","l","i","d">>,
    <<"e","x","p","i","r","e","d">>,
    <<"n","o","t"," ","a","u","t","h","o","r","i","z","e","d">> }

MatchesFatalSignal(error) ==
  \/ error.name \in FatalNames
  \/ \E phrase \in FatalPhrases : \E k \in 1..Len(error.message) :
        /\ k + Len(phrase) - 1 <= Len(error.message)
        /\ SubSeq(error.message, k, k + Len(phrase) - 1) = phrase

\* the step is the rejection of the write of item i
WriteRejected(i) ==
  /\ cmd = "sync" /\ pc = "uploading"
  /\ outcome[i] = Pending /\ outcome'[i] # Pending /\ outcome'[i].settled = "err"

\* C25: in sync, a rejected write whose error matches a fatal signal ends
\* the process with status 1 and leaves no entry in the results; any other
\* rejected write adds a failure entry with the error's message and leaves
\* the batch running.
C25_FatalAlwaysWins ==
  /\ [][\A i \in DOMAIN outcome : WriteRejected(i) =>
          IF MatchesFatalSignal(outcome'[i].error)
          THEN /\ pc' = "exited" /\ exitCode' = 1
               /\ results' = results /\ i \notin DOMAIN results'
          ELSE /\ i \in DOMAIN results'
               /\ results'[i] = [success |-> FALSE, parameter |-> parameters[i].Name,
                                  error |-> outcome'[i].error.message]
               /\ (\E j \in DOMAIN task' : task'[j] # "done") => pc' = "uploading"
               /\ \A j \in DOMAIN task : task[j] # "queued" => task'[j] # "queued"]_vars
  /\ [](cmd = "sync" /\ fatalAt # 0 =>
          pc = "exited" /\ exitCode = 1 /\ fatalAt \notin DOMAIN results)

\* a write was rejected with a message that holds 'invalid' under a name
\* that is no fatal name, and the process was terminated
C25_Witness ==
  /\ cmd = "sync" /\ fatalAt # 0 /\ pc = "exited"
  /\ outcome[fatalAt] = Rejected(ErrInvalidValue)
  /\ \E j \in DOMAIN results : ~results[j].success

\* the step is the rejection of the delete of item i
DeleteRejected(i) ==
  /\ cmd = "purge" /\ pc = "deleting"
  /\ outcome[i] = Pending /\ outcome'[i] # Pending /\ outcome'[i].settled = "err"

\* C26: in the deletion batch of a purge, a rejected delete whose error
\* matches a fatal signal ends the process with a status other than 0 and
\* is not recorded as a failed item.
C26_FatalDeleteAborts ==
  [][\A i \in DOMAIN outcome :
       (DeleteRejected(i) /\ MatchesFatalSignal(outcome'[i].error)) =>
          /\ pc' = "exited" /\ exitCode' # 0
          /\ i \notin DOMAIN results']_vars

\* the paths of the keys sync parsed from its value source
DerivedPaths ==
  IF SourceRead
  THEN LET envVars == parseEnvContent(SyncSource)
       IN  { createParameterPath(options.namespace, envVars[i].key) : i \in 1..Len(envVars) }
  ELSE {}

\* C27: no step of a sync removes a parameter from the remote store, and
\* every parameter that a step creates or changes is at the path of a
\* parsed key; all the others stay as they are, however the run ends.
C27_SyncWritesDerivedPathsOnly ==
  [][cmd = "sync" =>
       /\ DOMAIN store \subseteq DOMAIN store'
       /\ \A nm \in DOMAIN store' :
             nm \notin DerivedPaths => (nm \in DOMAIN store /\ store'[nm] = store[nm])]_vars

\* a sync was aborted by a fatal error after it had updated /a/K1 and
\* created another parameter; the foreign parameter is as it was
C27_Witness ==
  /\ cmd = "sync" /\ pc = "exited" /\ fatalAt # 0
  /\ store[NsA \o Slash \o <<"K","1">>] # InitialValue
  /\ Cardinality(DOMAIN store) > Cardinality(DOMAIN StoreOf(1))
  /\ store[ForeignName] = InitialValue
  /\ DOMAIN store \ DOMAIN StoreOf(1) \subseteq DerivedPaths

\* the operator confirmed the purge, or force made the prompts needless
PurgeConfirmed ==
  \/ options.force
  \/ /\ Len(answers) = 2
     /\ toLowerCase(answers[1]) = Yes
     /\ answers[2] = options.namespace

\* C28: once the listing is taken its names do not change; a purge removes
\* a name from the store only when it is confirmed and not blocked, and then
\* only a name of the listing whose delete is in flight; a confirmed purge
\* calls deleteParameter once for each name of the listing; a parameter
\* that another client created after the listing is never removed.
C28_DeletesExactlyTheSnapshot ==
  /\ [][cmd = "purge" =>
          /\ pc \in {"ask1", "ask2", "deleting"} => parameterNames' = parameterNames
          /\ \A nm \in DOMAIN store \ DOMAIN store' :
                /\ PurgeConfirmed /\ ~options.paranoid
                /\ \E i \in DOMAIN task : parameterNames[i] = nm /\ task[i] = "inflight"]_vars
  /\ [](cmd = "purge" =>
          /\ created \subseteq DOMAIN store
          /\ \A i, j \in DOMAIN parameterNames :
                i # j => parameterNames[i] # parameterNames[j]
          /\ task # <<>> =>
                /\ PurgeConfirmed /\ DOMAIN task = DOMAIN parameterNames
                /\ \A i \in DOMAIN task : attempts[i] <= 1
                /\ Ended => \A i \in DOMAIN task : attempts[i] = 1)

\* a confirmed purge deleted the two names or more of its listing while a
\* parameter that another client created under the namespace is still there
C28_Witness ==
  /\ cmd = "purge" /\ Ended /\ ~options.force /\ PurgeConfirmed
  /\ Len(parameterNames) >= 2
  /\ \A i \in DOMAIN parameterNames : parameterNames[i] \notin DOMAIN store
  /\ \E nm \in created : nm \in DOMAIN store /\ UnderPath(nm, options.namespace)

\* the keys of a mapping
KeysOf(mapping) == { mapping[i].key : i \in 1..Len(mapping) }

\* the text that follows the line that closes the quoted value of K
AfterClosingLine(text, q) ==
  SubSeq(text, LineEnd(text, Min(ClosingLines(text, q)) + 1) + 2, Len(text))

\* C29: when the quoted value of K takes in continuation lines, every other
\* key of the result comes from a line after the one that closes the value:
\* no continuation line gives an entry of its own.
C29_ContinuationLinesNotReparsed ==
  ( /\ Returned("parseEnvContent")
    /\ call.content \in QuotedContents \cup LongContents \cup ContinuedContents
    /\ ClosingLines(call.content, OpeningQuote) # {}
    /\ Min(ClosingLines(call.content, OpeningQuote)) >= 1 )
  => KeysOf(ret.value) \subseteq
       {<<"K">>} \cup KeysOf(EnvParser_parseEnvContent(AfterClosingLine(call.content, OpeningQuote)))

\* a batch is under way
InBatch == pc \in {"uploading", "deleting"}

\* the batch has returned one result per item
BatchCompleted ==
  /\ pc \in {"returned", "exited"}
  /\ task # <<>> /\ AllDone(task)
  /\ DOMAIN results = DOMAIN task

\* item i waits in the queue of the pool
WaitsInQueue(i) == InBatch /\ i \in DOMAIN task /\ task[i] = "queued"

\* the remote call of item i has been made
WasDispatched(i) == i \in DOMAIN attempts /\ attempts[i] > 0

\* no remote call is rejected with an error of a fatal kind
OnlyPerItemErrors == [](fatalAt = 0)

\* C30: when timers fire and remote calls settle, and no call is rejected with
\* a fatal error, every queued item of a sync or purge batch is eventually
\* dispatched and every batch eventually completes with one result per item.
C30_BatchEventuallyCompletes ==
  OnlyPerItemErrors =>
    /\ InBatch ~> BatchCompleted
    /\ \A i \in 1..MaxBatch : WaitsInQueue(i) ~> WasDispatched(i)

\* a batch wider than the pool has completed although a call was rejected
C30_Witness ==
  /\ BatchCompleted /\ fatalAt = 0
  /\ Len(task) > UploadConcurrency
  /\ \E i \in DOMAIN results : ~results[i].success
  /\ \A i \in DOMAIN task : WasDispatched(i)

====
